---- MODULE Spec2Model ----
(***************************************************************************)
(* A model of the subscription converter `subcon`:                         *)
(*   - the disk-backed HTTP fetch cache (src/network/cache.rs),            *)
(*   - the allow-list and the user-agent rotating fetcher                  *)
(*     (src/network/security.rs, src/network/mod.rs),                      *)
(*   - schema resolution and template rendering (src/schema/mod.rs).       *)
(*                                                                         *)
(* Conventions.  Option<T> is a sequence of length 0 (None) or 1 (Some).   *)
(* Byte strings are sequences of byte values.  A file system path is a     *)
(* record [key, ext]; a directory entry maps a path to an inode number,    *)
(* 0 meaning that the path does not exist.                                 *)
(***************************************************************************)
EXTENDS Integers, Sequences, FiniteSets, TLC

\* ------------------------------------------------------------------ bounds
\* The number of cache calls and disk changes in one history.
MaxOps == 3
\* The number of get_or_fetch_with calls in one history.
MaxFetches == 2
\* The clock runs from 0 to MaxTime.
MaxTime == 1
\* The largest configured ttl_seconds.
MaxTtl == 2
\* The number of includes of all raw schemas together; one schema has at most
\* half of them.
MaxEdges == 4
\* The number of proxies of a /sub render.
MaxProxies == 3
\* The number of rules of one group spec; two specs have one more together.
MaxRules == 2
\* The number of proxies build_groups is given.
MaxNames == 2
\* The number of characters of a rule line.
MaxLine == 5
\* The number of rules given to the reorder.
MaxReorder == 4
\* The number of entries of a rulesets file.
MaxEntries == 3
\* The number of members of an emitted group.
MaxMembers == 2
\* The number of API requests.
MaxRequests == 3

\* ------------------------------------------------------------ byte strings
\* 'a', 'b' (ASCII) and 0xFF, a byte that occurs in no UTF-8 encoding.
AsciiBytes == {97, 98}
BadByte == 255

\* The texts stored and served: "a" and "bb".
Texts == {<<97>>, <<98, 98>>}

\* String::from_utf8 on the model's alphabet: every byte below 0x80 is a
\* one-byte code point, 0xFF never occurs in valid UTF-8.
from_utf8_ok(bytes) == \A i \in 1..Len(bytes) : bytes[i] < 128

\* sha256_hex, taken as collision-free: an injective numbering of byte strings
\* (bijective base-257 numeration).
RECURSIVE sha256_hex(_)
sha256_hex(bytes) ==
    IF bytes = <<>> THEN 0
    ELSE sha256_hex(SubSeq(bytes, 1, Len(bytes) - 1)) * 257 + bytes[Len(bytes)] + 1

\* -------------------------------------------------------------------- urls
\* A url is [host, path]: host is Option<byte string>, path one byte.
NoHost == <<>>
HostLowerA == <<97>>
HostUpperA == <<65>>
HostLowerB == <<98>>
Url(h, c) == [host |-> h, path |-> c]
UrlA1 == Url(<<HostLowerA>>, 49)
UrlA2 == Url(<<HostLowerA>>, 50)
UrlUpperA == Url(<<HostUpperA>>, 49)
UrlB == Url(<<HostLowerB>>, 49)
UrlNoHost == Url(NoHost, 49)
Urls == {UrlA1, UrlA2, UrlUpperA, UrlB, UrlNoHost}
\* The urls the cache is driven with directly.
CacheUrls == {UrlA1, UrlA2}

\* Url::as_str: the host, when the url has one, followed by the path.
as_str(url) == (IF url.host = NoHost THEN <<>> ELSE url.host[1]) \o <<url.path>>

\* CacheStore::cache_path_for_url and Path::with_extension("tmp").
cache_path_for_url(url) == [key |-> sha256_hex(as_str(url)), ext |-> "cache"]
with_extension_tmp(path) == [key |-> path.key, ext |-> "tmp"]
Paths == UNION {{cache_path_for_url(u), with_extension_tmp(cache_path_for_url(u))} : u \in Urls}

\* ------------------------------------------------------------------- state
Procs == {1, 2}
NoFile == 0
Inodes == 1..(Cardinality(Paths) + Cardinality(Procs))

VARIABLES
    ttl,            \* CacheStore.ttl
    cache_enabled,  \* Network.cache_enabled ([network] enable)
    allowed_domain, \* the configured [network] allowed_domain list
    allowed_domains,\* Security.allowed_domains
    entries,        \* CacheStore.entries: url -> Option<CacheEntry>
    dirent,         \* the cache directory: path -> inode or NoFile
    idata,          \* inode -> bytes
    now,            \* SystemTime::now()
    ops,            \* the calls and disk changes so far
    pc,             \* per task: the step it is at
    call,           \* per task: the call it runs
    loc,            \* per task: its local variables
    ret,            \* per task: the value its call returned
    stored,         \* history: url -> texts of the store calls started for it
    good,           \* history: url -> Option<[text, expires_at]> of the last
                    \*   successful store, cleared when the file is changed
    dead,           \* history: url -> a read found its entry unservable and
                    \*   no store for the url was called since
    obs,            \* history, per task: facts about the state its call started in
    raw,            \* resolve_protocols: protocol name -> Option<ProtocolSchema>
    resolved,       \* the registry built so far (`resolved`, `cache`)
    resolving,      \* the protocols being resolved
    names,          \* the keys of raw not yet visited by the loop
    frames,         \* the active resolve_protocol calls, innermost last
    result,        \* what resolve_protocols returned, "running" before
    template,       \* render_template: the template
    ctx,            \* render_template: the normalized map
    rendered,       \* Option of what render_template returned
    pruned,         \* Option of the object the FieldPruner pass left
    args,           \* RenderArgs.proxies of a /sub render
    target,         \* the target of the render
    sort,           \* pref.common.sort
    proxies,        \* the renderer's `proxies`
    stage,          \* where the renderer is
    doc,            \* the proxies rendered so far
    failure,        \* Option of the error the render failed with
    converted,      \* Option of what a direct convert call returned
    specs,          \* the group specs given to build_groups
    groups,         \* Option of what build_groups returned
    rebuilt,        \* Option of what build_group returned for a fed-back list
    line,           \* the line and the group parse_rule_line is given
    parsed_rule,    \* Option of what parse_rule_line returned
    rule_text,      \* Option of what Rule::render returned
    rulesets,       \* the rulesets file and the sources of a load pass
    rules,          \* Option of a rule list: loaded, or given to the reorder
    reordered,      \* Option of what reorder_rules_domain_before_ip returned
    again,          \* Option of what it returned for its own output
    proxy_group,    \* the ProxyGroup the group emitters are given
    emitted,        \* what render_proxy_group and render_surge_group_line returned
    state_pref,     \* state.pref of the server that handles /sub
    params,         \* the query of two /sub requests: their url, and the token of each
    profiles,       \* the profile files the server of each request finds
    response,       \* Option of the proxy list each request was served from
    pref_file,      \* the pref file at state.pref_path
    runtime,        \* the RuntimeState behind state.runtime
    api,            \* the API request of each task and where it stands
    builds,         \* the number of RuntimeStates built since startup
    requests        \* the number of API requests received

schemaVars == <<raw, resolved, resolving, names, frames, result>>
renderVars == <<template, ctx, rendered>>
subVars == <<args, target, sort, proxies, stage, doc, failure, converted>>
groupVars == <<specs, groups, rebuilt>>
ruleVars == <<line, parsed_rule, rule_text, rulesets, rules, reordered, again>>
requestVars == <<state_pref, params, profiles, response>>
runtimeVars == <<pref_file, runtime, api, builds, requests>>
serverVars == <<proxy_group, emitted, requestVars, runtimeVars>>
exportVars == <<pruned, subVars, groupVars, ruleVars, serverVars>>
\* What no step of the cache and of the fetcher changes: their configuration,
\* and the state of the schema module.
cfgVars == <<ttl, cache_enabled, allowed_domain, allowed_domains, schemaVars, renderVars,
             exportVars>>
cacheVars == <<cfgVars, entries, dirent, idata, now>>
taskVars == <<pc, call, loc, ret, ops>>
histVars == <<stored, good, dead, obs>>
networkVars == <<ttl, cache_enabled, allowed_domain, allowed_domains,
                 entries, dirent, idata, now, taskVars, histVars>>
vars == <<cacheVars, taskVars, histVars>>

NoCall == [op |-> "none", url |-> UrlA1, text |-> <<>>,
           user_agents |-> <<>>, no_cache |-> FALSE, parse |-> "any"]
NoLoc == [entry |-> <<>>, fd |-> NoFile, text |-> <<>>, content_hash |-> 0,
          cancelled |-> FALSE, i |-> 0, last_error |-> <<>>]
NoRet == [st |-> "none", code |-> 0, val |-> <<>>, msg |-> <<>>]
NoObs == [unservable |-> FALSE, dead |-> FALSE, reads |-> 0, hit |-> <<>>,
          gets |-> <<>>, before |-> <<>>]
RetOk(v) == [st |-> "ok", code |-> 200, val |-> v, msg |-> <<>>]
RetErr(c) == [st |-> "err", code |-> c, val |-> <<>>, msg |-> <<>>]
RetErrMsg(c, m) == [st |-> "err", code |-> c, val |-> <<>>, msg |-> m]
\* The task was aborted: nobody receives a value.
RetCancelled == [st |-> "cancelled", code |-> 0, val |-> <<>>, msg |-> <<>>]

CacheEntry(e, h, p) == [expires_at |-> e, sha256 |-> h, path |-> p]

\* Inodes no path links and no task holds are free; their bytes are dropped.
UsedInodes(d, l) == {d[p] : p \in Paths} \cup {l[t].fd : t \in Procs}
Gc(d, data, l) == [i \in Inodes |-> IF i \in UsedInodes(d, l) THEN data[i] ELSE <<>>]
FreshInode(d, l) == CHOOSE i \in Inodes : i \notin UsedInodes(d, l) /\
                        \A j \in Inodes : j \notin UsedInodes(d, l) => i <= j

\* CacheStore::new: an empty directory, an empty index.
InitCache ==
    /\ ttl \in 0..MaxTtl
    /\ cache_enabled = TRUE
    /\ allowed_domain = <<>>
    /\ allowed_domains = <<>>
    /\ entries = [u \in Urls |-> <<>>]
    /\ dirent = [p \in Paths |-> NoFile]
    /\ idata = [i \in Inodes |-> <<>>]
    /\ now = 0

InitTasks ==
    /\ pc = [t \in Procs |-> "idle"]
    /\ call = [t \in Procs |-> NoCall]
    /\ loc = [t \in Procs |-> NoLoc]
    /\ ret = [t \in Procs |-> NoRet]
    /\ ops = 0

InitHist ==
    /\ stored = [u \in Urls |-> {}]
    /\ good = [u \in Urls |-> <<>>]
    /\ dead = [u \in Urls |-> FALSE]
    /\ obs = [t \in Procs |-> NoObs]

\* -------------------------------------------------------- CacheStore::store
\* The claim's words for "an index entry that read cannot serve".
Unservable(url) ==
    /\ entries[url] # <<>>
    /\ LET e == entries[url][1]
       IN  \/ e.expires_at <= now
           \/ dirent[e.path] = NoFile
           \/ sha256_hex(idata[dirent[e.path]]) # e.sha256
           \/ ~from_utf8_ok(idata[dirent[e.path]])

CountOp == ops < MaxOps /\ ops' = ops + 1
Goto(t, label) == pc' = [pc EXCEPT ![t] = label]
Return(t, r) ==
    /\ pc' = [pc EXCEPT ![t] = "ret"]
    /\ ret' = [ret EXCEPT ![t] = r]
\* read and store return to their caller: the client of the cache, or
\* get_or_fetch_with, which goes on with the returned value.
ReadReturn(t, r) ==
    /\ pc' = [pc EXCEPT ![t] = IF call[t].op = "fetch" THEN "gf_cached" ELSE "ret"]
    /\ ret' = [ret EXCEPT ![t] = r]
StoreReturn(t, r) ==
    /\ pc' = [pc EXCEPT ![t] = IF call[t].op = "fetch" THEN "gf_stored" ELSE "ret"]
    /\ ret' = [ret EXCEPT ![t] = r]

\* store(url, text), lines 85-88: the bytes and their hash.
StoreLocals(text) == [NoLoc EXCEPT !.text = text, !.content_hash = sha256_hex(text)]

\* A task starts store(url, text).
CallStore(t, url, text) ==
    /\ pc[t] = "idle"
    /\ CountOp
    /\ Goto(t, "st_create")
    /\ call' = [call EXCEPT ![t] = [NoCall EXCEPT !.op = "store", !.url = url, !.text = text]]
    /\ loc' = [loc EXCEPT ![t] = StoreLocals(text)]
    /\ stored' = [stored EXCEPT ![url] = @ \cup {text}]
    /\ dead' = [dead EXCEPT ![url] = FALSE]
    /\ obs' = [obs EXCEPT ![t] = NoObs]
    /\ UNCHANGED <<cacheVars, ret, good>>

\* tokio::fs::write, first half: File::create opens <key>.tmp with
\* O_CREAT | O_TRUNC; an existing file is truncated in place.
store_create(t) ==
    /\ pc[t] = "st_create"
    /\ LET tmp == with_extension_tmp(cache_path_for_url(call[t].url))
           ino == IF dirent[tmp] = NoFile THEN FreshInode(dirent, loc) ELSE dirent[tmp]
       IN  /\ dirent' = [dirent EXCEPT ![tmp] = ino]
           /\ loc' = [loc EXCEPT ![t].fd = ino]
           /\ idata' = Gc(dirent', [idata EXCEPT ![ino] = <<>>], loc')
    /\ Goto(t, "st_write")
    /\ UNCHANGED <<cfgVars, entries, now, call, ret, ops, histVars>>

\* tokio::fs::write, second half: write_all at offset 0 of the open file, which
\* is then closed. Bytes of the file beyond the written ones stay.
WriteAt0(old, bytes) == bytes \o SubSeq(old, Len(bytes) + 1, Len(old))

store_write(t) ==
    /\ pc[t] = "st_write"
    /\ LET ino == loc[t].fd
       IN  /\ loc' = [loc EXCEPT ![t].fd = NoFile]
           /\ idata' = Gc(dirent, [idata EXCEPT ![ino] = WriteAt0(@, loc[t].text)], loc')
    /\ IF loc[t].cancelled
       THEN Return(t, RetCancelled)
       ELSE Goto(t, "st_rename") /\ UNCHANGED ret
    /\ UNCHANGED <<cfgVars, entries, dirent, now, call, ops, histVars>>

\* tokio::fs::rename(tmp, path): fails when tmp does not exist (`?` returns the
\* error), else path names tmp's inode and tmp is gone.
store_rename(t) ==
    /\ pc[t] = "st_rename"
    /\ LET path == cache_path_for_url(call[t].url)
           tmp == with_extension_tmp(path)
       IN  IF dirent[tmp] = NoFile
           THEN /\ StoreReturn(t, RetErr(500))
                /\ UNCHANGED <<dirent, idata>>
           ELSE /\ dirent' = [dirent EXCEPT ![path] = dirent[tmp], ![tmp] = NoFile]
                /\ idata' = Gc(dirent', idata, loc)
                /\ IF loc[t].cancelled
                   THEN Return(t, RetCancelled)
                   ELSE Goto(t, "st_insert") /\ UNCHANGED ret
    /\ UNCHANGED <<cfgVars, entries, now, call, loc, ops, histVars>>

\* Lines 97-105: build the entry, lock the index, insert, return Ok(()).
StoreEntry(t) ==
    CacheEntry(now + ttl, loc[t].content_hash, cache_path_for_url(call[t].url))

store_insert(t) ==
    /\ pc[t] = "st_insert"
    /\ entries' = [entries EXCEPT ![call[t].url] = <<StoreEntry(t)>>]
    /\ good' = [good EXCEPT ![call[t].url] =
                    <<[text |-> loc[t].text, expires_at |-> now + ttl]>>]
    /\ StoreReturn(t, RetOk(<<>>))
    /\ UNCHANGED <<cfgVars, dirent, idata, now, call, loc, ops, stored, dead, obs>>

\* The task running store is aborted at an await (a client disconnect). At
\* `tokio::fs::write(..).await` and `tokio::fs::rename(..).await` the blocking
\* call may already run on the blocking pool, which finishes it although
\* the future is dropped; otherwise the store simply stops.
Cancel(t) ==
    /\ pc[t] \in {"st_create", "st_write", "st_rename", "st_insert"}
    /\ ~loc[t].cancelled
    /\ \/ /\ pc[t] # "st_write"
          /\ Return(t, RetCancelled)
          /\ UNCHANGED loc
       \/ /\ pc[t] # "st_insert"
          /\ loc' = [loc EXCEPT ![t].cancelled = TRUE]
          /\ UNCHANGED <<pc, ret>>
    /\ UNCHANGED <<cacheVars, call, ops, histVars>>

\* --------------------------------------------------------- CacheStore::read
CallRead(t, url) ==
    /\ pc[t] = "idle"
    /\ CountOp
    /\ Goto(t, "rd_lookup")
    /\ call' = [call EXCEPT ![t] = [NoCall EXCEPT !.op = "read", !.url = url]]
    /\ obs' = [obs EXCEPT ![t] = [NoObs EXCEPT !.unservable = Unservable(url),
                                               !.dead = dead[url]]]
    /\ UNCHANGED <<cacheVars, loc, ret, stored, good, dead>>

\* get_valid_entry, lines 109-119, under the index mutex.
EntryValid_reversed(entry) == entry.expires_at < now
EntryValid_inclusive(entry) == entry.expires_at >= now
EntryValid(entry) == entry.expires_at > now

get_valid_entry(t) ==
    /\ pc[t] = "rd_lookup"
    /\ LET found == entries[call[t].url]
       IN  IF found = <<>>
           THEN /\ ReadReturn(t, RetOk(<<>>))
                /\ UNCHANGED <<entries, loc>>
           ELSE IF EntryValid(found[1])
           THEN /\ loc' = [loc EXCEPT ![t].entry = found]
                /\ Goto(t, "rd_file")
                /\ UNCHANGED <<entries, ret>>
           ELSE /\ entries' = [entries EXCEPT ![call[t].url] = <<>>]
                /\ loc' = [loc EXCEPT ![t].entry = found]
                /\ Goto(t, "rd_expired")
                /\ UNCHANGED ret
    /\ UNCHANGED <<cfgVars, dirent, idata, now, call, ops, histVars>>

\* get_valid_entry, lines 121-125: unlink the expired entry's file (an error
\* of remove_file is ignored) and return None.
remove_expired(t) ==
    /\ pc[t] = "rd_expired"
    /\ dirent' = [dirent EXCEPT ![loc[t].entry[1].path] = NoFile]
    /\ idata' = Gc(dirent', idata, loc)
    /\ ReadReturn(t, RetOk(<<>>))
    /\ UNCHANGED <<cfgVars, entries, now, call, loc, ops, histVars>>

\* Lines 52-81: read the file, compare the hash, decode, return Some(text);
\* each failure goes to evict.
\* (ReadServes_any_hash: the variant that skips the hash comparison.)
ReadServes_any_hash(entry, bytes) == from_utf8_ok(bytes)

ReadServes(entry, bytes) ==
    /\ sha256_hex(bytes) = entry.sha256
    /\ from_utf8_ok(bytes)

read_file(t) ==
    /\ pc[t] = "rd_file"
    /\ LET entry == loc[t].entry[1]
           ino == dirent[entry.path]
       IN  IF ino # NoFile /\ ReadServes(entry, idata[ino])
           THEN ReadReturn(t, RetOk(<<idata[ino]>>))
           ELSE /\ Goto(t, "rd_evict")
                /\ UNCHANGED ret
    /\ UNCHANGED <<cacheVars, call, loc, ops, histVars>>

\* evict, lines 129-132: remove the url's entry under the mutex.
evict(t) ==
    /\ pc[t] = "rd_evict"
    /\ LET found == entries[call[t].url]
       IN  /\ entries' = [entries EXCEPT ![call[t].url] = <<>>]
           /\ loc' = [loc EXCEPT ![t].entry = found]
           /\ IF found = <<>>
              THEN ReadReturn(t, RetOk(<<>>))
              ELSE /\ Goto(t, "rd_unlink")
                   /\ UNCHANGED ret
    /\ UNCHANGED <<cfgVars, dirent, idata, now, call, ops, histVars>>

\* evict, lines 133-135: unlink the removed entry's file; read returns None.
evict_remove_file(t) ==
    /\ pc[t] = "rd_unlink"
    /\ dirent' = [dirent EXCEPT ![loc[t].entry[1].path] = NoFile]
    /\ idata' = Gc(dirent', idata, loc)
    /\ ReadReturn(t, RetOk(<<>>))
    /\ UNCHANGED <<cfgVars, entries, now, call, loc, ops, histVars>>

\* ------------------------------------------------------ Security, Network
to_ascii_lowercase(bytes) ==
    [i \in 1..Len(bytes) |-> IF bytes[i] \in 65..90 THEN bytes[i] + 32 ELSE bytes[i]]

\* Security::new lower-cases every configured domain.
SecurityNew(config) == [i \in 1..Len(config) |-> to_ascii_lowercase(config[i])]

InList(list, x) == \E i \in 1..Len(list) : list[i] = x

\* Security::validate_url: 0 for Ok(()), else the status of the error.
HostAllowed(host) == InList(allowed_domains, to_ascii_lowercase(host))

validate_url_unchecked(url) ==
    IF url.host = NoHost THEN 400
    ELSE IF Len(allowed_domains) = 0 THEN 403
    ELSE 0

validate_url(url) ==
    IF url.host = NoHost THEN 400
    ELSE IF Len(allowed_domains) = 0 THEN 403
    ELSE IF ~HostAllowed(url.host[1]) THEN 403
    ELSE 0

\* The parse closures a caller passes: "any" accepts every text, "only_a" the
\* texts that start with 'a'. The parsed value keeps the text it came from.
ParseFns == {"any", "only_a"}
ParseOk(f, text) == f = "any" \/ (Len(text) > 0 /\ text[1] = 97)
ParseValue(text) == [profile |-> text]
ParseResult(f, text) == IF ParseOk(f, text) THEN RetOk(<<ParseValue(text)>>) ELSE RetErr(500)

\* What one GET ends in: a network error, a non-2xx status, or a 2xx body.
Responses == {[kind |-> "error", text |-> <<>>], [kind |-> "status", text |-> <<>>]}
                \cup {[kind |-> "body", text |-> x] : x \in Texts}

\* The user agents of the fetcher's callers, by number; the lists passed.
UALists == {<<>>, <<1>>, <<1, 2>>}
FetchUrls == {UrlA1, UrlUpperA, UrlB, UrlNoHost}

\* A task starts get_or_fetch_with(url, user_agents, no_cache, parse).
CallFetch(t, url, uas, nc, f) ==
    /\ pc[t] = "idle"
    /\ ops < MaxFetches
    /\ ops' = ops + 1
    /\ Goto(t, "gf_validate")
    /\ call' = [call EXCEPT ![t] = [NoCall EXCEPT !.op = "fetch", !.url = url,
                    !.user_agents = uas, !.no_cache = nc, !.parse = f]]
    /\ obs' = [obs EXCEPT ![t] = [NoObs EXCEPT !.unservable = Unservable(url),
                    !.dead = dead[url], !.before = <<entries, dirent, idata>>]]
    /\ UNCHANGED <<cacheVars, loc, ret, stored, good, dead>>

\* Lines 51-61: validate_url, then the cache read when the cache is in use.
use_cache_always(t) == cache_enabled
use_cache(t) == cache_enabled /\ ~call[t].no_cache
should_store == cache_enabled

gf_validate(t) ==
    /\ pc[t] = "gf_validate"
    /\ LET status == validate_url(call[t].url)
       IN  IF status # 0
           THEN Return(t, RetErr(status)) /\ UNCHANGED obs
           ELSE IF use_cache(t)
           THEN /\ Goto(t, "rd_lookup")
                /\ obs' = [obs EXCEPT ![t].reads = @ + 1]
                /\ UNCHANGED ret
           ELSE Goto(t, "gf_uas") /\ UNCHANGED <<ret, obs>>
    /\ UNCHANGED <<cacheVars, call, loc, ops, stored, good, dead>>

\* Lines 57-61: on a hit, return parse(text); on a miss go on to the fetch.
\* (gf_cached_restore: the variant that stores the text of a hit again.)
gf_cached_restore(t) ==
    /\ pc[t] = "gf_cached"
    /\ obs' = [obs EXCEPT ![t].hit = ret[t].val]
    /\ IF ret[t].val # <<>>
       THEN /\ Goto(t, "st_create")
            /\ loc' = [loc EXCEPT ![t] = StoreLocals(ret[t].val[1])]
            /\ UNCHANGED ret
       ELSE /\ Goto(t, "gf_uas")
            /\ ret' = [ret EXCEPT ![t] = NoRet]
            /\ UNCHANGED loc
    /\ UNCHANGED <<cacheVars, call, ops, stored, good, dead>>

gf_cached(t) ==
    /\ pc[t] = "gf_cached"
    /\ obs' = [obs EXCEPT ![t].hit = ret[t].val]
    /\ IF ret[t].val # <<>>
       THEN Return(t, ParseResult(call[t].parse, ret[t].val[1]))
       ELSE /\ Goto(t, "gf_uas")
            /\ ret' = [ret EXCEPT ![t] = NoRet]
    /\ UNCHANGED <<cacheVars, call, loc, ops, stored, good, dead>>

\* Lines 63-70: no user agent is an internal error.
gf_uas(t) ==
    /\ pc[t] = "gf_uas"
    /\ IF call[t].user_agents = <<>>
       THEN Return(t, RetErr(500)) /\ UNCHANGED loc
       ELSE /\ Goto(t, "gf_get")
            /\ loc' = [loc EXCEPT ![t].i = 1, ![t].last_error = <<>>]
            /\ UNCHANGED ret
    /\ UNCHANGED <<cacheVars, call, ops, histVars>>

\* Lines 72-95, one turn of the loop: fetch_text with user agent i (lines
\* 106-122: the GET, the status check, the body), then parse, then either the
\* store, the return, or the next user agent. After the last user agent,
\* lines 97-103: BAD_GATEWAY with the last error.
Diagnostic(what, ua, err) == [what |-> what, ua |-> ua, err |-> err]

\* Gives up at the first failure.
NextAgent_giveup(t, diag) ==
    /\ Return(t, RetErrMsg(502, <<diag>>))
    /\ loc' = [loc EXCEPT ![t].last_error = <<diag>>]

\* Keeps the first error, not the last.
NextAgent_first(t, diag) ==
    LET kept == IF loc[t].last_error = <<>> THEN <<diag>> ELSE loc[t].last_error
    IN  IF loc[t].i = Len(call[t].user_agents)
        THEN /\ Return(t, RetErrMsg(502, kept))
             /\ loc' = [loc EXCEPT ![t].last_error = kept]
        ELSE /\ loc' = [loc EXCEPT ![t].i = @ + 1, ![t].last_error = kept]
             /\ UNCHANGED <<pc, ret>>

NextAgent(t, diag) ==
    IF loc[t].i = Len(call[t].user_agents)
    THEN /\ Return(t, RetErrMsg(502, <<diag>>))
         /\ loc' = [loc EXCEPT ![t].last_error = <<diag>>]
    ELSE /\ loc' = [loc EXCEPT ![t].i = @ + 1, ![t].last_error = <<diag>>]
         /\ UNCHANGED <<pc, ret>>

gf_get(t, resp) ==
    /\ pc[t] = "gf_get"
    /\ LET ua == call[t].user_agents[loc[t].i]
           parsed == resp.kind = "body" /\ ParseOk(call[t].parse, resp.text)
           outcome == IF resp.kind # "body" THEN resp.kind
                      ELSE IF parsed THEN "ok" ELSE "parse"
       IN  /\ obs' = [obs EXCEPT
                    ![t].gets = Append(@, [ua |-> ua, outcome |-> outcome, text |-> resp.text])]
           /\ IF resp.kind # "body"
              THEN /\ NextAgent(t, Diagnostic("request", ua, resp.kind))
                   /\ UNCHANGED <<stored, dead>>
              ELSE IF ~parsed
              THEN /\ NextAgent(t, Diagnostic("parse", ua, "parse"))
                   /\ UNCHANGED <<stored, dead>>
              ELSE IF should_store
              THEN /\ Goto(t, "st_create")
                   /\ loc' = [loc EXCEPT ![t] = StoreLocals(resp.text)]
                   /\ stored' = [stored EXCEPT ![call[t].url] = @ \cup {resp.text}]
                   /\ dead' = [dead EXCEPT ![call[t].url] = FALSE]
                   /\ UNCHANGED ret
              ELSE /\ Return(t, RetOk(<<ParseValue(resp.text)>>))
                   /\ UNCHANGED <<loc, stored, dead>>
    /\ UNCHANGED <<cacheVars, call, ops, good>>

\* Lines 84-89: an error of store is an internal error, else Ok(value).
gf_stored(t) ==
    /\ pc[t] = "gf_stored"
    /\ Return(t, IF ret[t].st = "ok" THEN RetOk(<<ParseValue(loc[t].text)>>) ELSE RetErr(500))
    /\ UNCHANGED <<cacheVars, call, loc, ops, histVars>>

FetchStep(t) ==
    \/ gf_validate(t)
    \/ gf_cached(t)
    \/ gf_uas(t)
    \/ \E resp \in Responses : gf_get(t, resp)
    \/ gf_stored(t)

\* The caller takes the returned value; the task is free again.
TakeResult(t) ==
    /\ pc[t] = "ret"
    /\ pc' = [pc EXCEPT ![t] = "idle"]
    /\ call' = [call EXCEPT ![t] = NoCall]
    /\ loc' = [loc EXCEPT ![t] = NoLoc]
    /\ ret' = [ret EXCEPT ![t] = NoRet]
    /\ obs' = [obs EXCEPT ![t] = NoObs]
    /\ dead' = IF call[t].op = "read" /\ obs[t].unservable
               THEN [dead EXCEPT ![call[t].url] = TRUE]
               ELSE dead
    /\ UNCHANGED <<cacheVars, ops, stored, good>>

\* ------------------------------------------------------------- environment
Tick ==
    /\ now < MaxTime
    /\ now' = now + 1
    /\ UNCHANGED <<cfgVars, entries, dirent, idata, taskVars, histVars>>

\* Something outside the program overwrites byte i of a cache file with b, or
\* deletes the file.
Perturb(url, i, b) ==
    /\ CountOp
    /\ LET path == cache_path_for_url(url)
       IN  /\ dirent[path] # NoFile
           /\ i \in 1..Len(idata[dirent[path]])
           /\ idata[dirent[path]][i] # b
           /\ idata' = [idata EXCEPT ![dirent[path]][i] = b]
    /\ good' = [good EXCEPT ![url] = <<>>]
    /\ UNCHANGED <<cfgVars, entries, dirent, now, pc, call, loc, ret, stored, dead, obs>>

Unlink(url) ==
    /\ CountOp
    /\ LET path == cache_path_for_url(url)
       IN  /\ dirent[path] # NoFile
           /\ dirent' = [dirent EXCEPT ![path] = NoFile]
           /\ idata' = Gc(dirent', idata, loc)
    /\ good' = [good EXCEPT ![url] = <<>>]
    /\ UNCHANGED <<cfgVars, entries, now, pc, call, loc, ret, stored, dead, obs>>

\* ------------------------------------------------------------ schema values
\* A serde_json Value is [kind, v]: v numbers the values of one kind.
JValue(kind, v) == [kind |-> kind, v |-> v]
JNull == JValue("null", 0)
Values == {JValue("string", 1), JValue("integer", 1), JValue("integer", 2),
           JValue("float", 1)}

FieldTypes == {"string", "integer", "boolean", "list", "map"}

\* FieldType::matches. Value::as_i64 and as_u64 are Some for the integers only.
matches(ty, value) ==
    CASE ty = "string" -> value.kind = "string"
      [] ty = "integer" -> value.kind = "integer"
      [] ty = "boolean" -> value.kind = "boolean"
      [] ty = "list" -> value.kind = "array"
      [] ty = "map" -> value.kind = "object"

\* FieldSpec and the four variants of ValueTemplate. A BTreeMap is a function
\* on the set of its keys.
FieldSpec(ty) == [ty |-> ty]
Field(from, optional, default) ==
    [tag |-> "Field", from |-> from, optional |-> optional, default |-> default]
Literal(value) == [tag |-> "Literal", value |-> value]
Object(map) == [tag |-> "Object", map |-> map]
Sequence(items) == [tag |-> "Sequence", items |-> items]
EmptyMap == [k \in {} |-> JNull]

TargetSchema(tmpl, ordered_keys, not_implemented) ==
    [template |-> tmpl, ordered_keys |-> ordered_keys,
     not_implemented |-> not_implemented]
ProtocolSchema(protocol, includes, fields, targets) ==
    [protocol |-> protocol, includes |-> includes, fields |-> fields,
     targets |-> targets]

\* The loop `for (k, v) in other { if override_existing || !self.contains_key(k)
\* { self.insert(k, v) } }` of both absorb functions, and the variant of it in
\* which the absorbed map wins in every case.
absorb_entries_override(self, other, override_existing) ==
    [k \in DOMAIN self \cup DOMAIN other |->
        IF k \in DOMAIN other THEN other[k] ELSE self[k]]

absorb_entries(self, other, override_existing) ==
    [k \in DOMAIN self \cup DOMAIN other |->
        IF k \in DOMAIN other /\ (override_existing \/ k \notin DOMAIN self)
        THEN other[k]
        ELSE self[k]]

\* The rule of TargetSchema::absorb for ordered_keys and not_implemented.
absorb_option(self, other, override_existing) ==
    IF override_existing
    THEN IF other # <<>> THEN other ELSE self
    ELSE IF self = <<>> THEN other ELSE self

TargetSchema_absorb(self, other, override_existing) ==
    [template |-> absorb_entries(self.template, other.template, override_existing),
     ordered_keys |->
        absorb_option(self.ordered_keys, other.ordered_keys, override_existing),
     not_implemented |->
        absorb_option(self.not_implemented, other.not_implemented, override_existing)]

ProtocolSchema_absorb(self, other, override_existing) ==
    [self EXCEPT
        !.fields = absorb_entries(self.fields, other.fields, override_existing),
        !.targets =
            [t \in DOMAIN self.targets \cup DOMAIN other.targets |->
                IF t \notin DOMAIN self.targets THEN other.targets[t]
                ELSE IF t \notin DOMAIN other.targets THEN self.targets[t]
                ELSE TargetSchema_absorb(self.targets[t], other.targets[t],
                                         override_existing)]]

\* validate_template and validate_template_map: TRUE for Ok.
RECURSIVE validate_template(_, _)
validate_template(tmpl, fields) ==
    CASE tmpl.tag = "Field" ->
            /\ tmpl.from \in DOMAIN fields
            /\ tmpl.default # <<>> => matches(fields[tmpl.from].ty, tmpl.default[1])
      [] tmpl.tag = "Object" ->
            \A k \in DOMAIN tmpl.map : validate_template(tmpl.map[k], fields)
      [] tmpl.tag = "Sequence" ->
            \A i \in 1..Len(tmpl.items) : validate_template(tmpl.items[i], fields)
      [] tmpl.tag = "Literal" -> TRUE

validate_template_map(map, fields) ==
    \A k \in DOMAIN map : validate_template(map[k], fields)

validate_templates(schema) ==
    \A t \in DOMAIN schema.targets :
        validate_template_map(schema.targets[t].template, schema.fields)

\* -------------------------------------------------------- resolve_protocols
ProtocolNames == {"a", "b", "c", "d"}
\* The protocol that may have no schema file.
Optional == "d"

\* The raw schemas. Each protocol tags what it declares: its field types
\* and its literals are its own.
RawFields(n) ==
    CASE n = "a" -> ("f" :> FieldSpec("string"))
      [] n = "b" -> ("f" :> FieldSpec("integer")) @@ ("g" :> FieldSpec("integer"))
      [] n = "c" -> EmptyMap
      [] n = "d" -> ("g" :> FieldSpec("boolean"))

RawTargets(n) ==
    CASE n = "a" ->
            ("t" :> TargetSchema(("k" :> Literal(JValue("string", 1))), <<>>, <<>>))
      [] n = "b" ->
            ("t" :> TargetSchema(("k" :> Literal(JValue("string", 2)))
                                 @@ ("r" :> Field("g", FALSE, <<>>)),
                                 <<>>, <<TRUE>>))
      [] n = "c" ->
            ("t" :> TargetSchema(("r" :> Field("f", TRUE, <<JValue("string", 1)>>)),
                                 <<>>, <<>>))
      [] n = "d" ->
            ("u" :> TargetSchema(("k" :> Literal(JValue("string", 4))), <<>>, <<>>))

RawSchema(n, includes) == ProtocolSchema(n, includes, RawFields(n), RawTargets(n))

IncludeLists ==
    {s \in UNION {[1..k -> ProtocolNames] : k \in 0..(MaxEdges \div 2)} :
        \A i, j \in 1..Len(s) : s[i] = s[j] => i = j}

InitResolve ==
    /\ \E ia \in IncludeLists, ib \in IncludeLists :
        \E ic \in IncludeLists :
            /\ Len(ia) + Len(ib) + Len(ic) <= MaxEdges
            /\ \E id \in IncludeLists, loaded \in BOOLEAN :
                /\ Len(ia) + Len(ib) + Len(ic) + Len(id) <= MaxEdges
                /\ ~loaded => id = <<>>
                /\ raw = ("a" :> <<RawSchema("a", ia)>>) @@ ("b" :> <<RawSchema("b", ib)>>)
                         @@ ("c" :> <<RawSchema("c", ic)>>)
                         @@ (Optional :> IF loaded THEN <<RawSchema(Optional, id)>> ELSE <<>>)
    /\ resolved = [n \in ProtocolNames |-> <<>>]
    /\ resolving = {}
    /\ names = {n \in ProtocolNames : raw[n] # <<>>}
    /\ frames = <<>>
    /\ result = "running"

\* No resolution under way.
InitSchema ==
    /\ raw = [n \in ProtocolNames |-> <<>>]
    /\ resolved = [n \in ProtocolNames |-> <<>>]
    /\ resolving = {}
    /\ names = {}
    /\ frames = <<>>
    /\ result = "ok"

\* raw.get(name), and a variant that takes a missing schema for an empty one.
lookup_or_default(name) ==
    IF raw[name] = <<>>
    THEN <<ProtocolSchema(name, <<>>, EmptyMap, EmptyMap)>>
    ELSE raw[name]

lookup(name) == raw[name]

\* An Err propagates through every `?` up to the caller of resolve_protocols.
Fail(kind) ==
    /\ result' = kind
    /\ frames' = <<>>

\* Ok(parent) returned to the calling resolve_protocol, which absorbs it and
\* moves to its next include; the loop of resolve_protocols drops the value.
Deliver(fr, parent) ==
    IF fr = <<>> THEN fr
    ELSE [fr EXCEPT ![Len(fr)].combined = ProtocolSchema_absorb(@, parent, FALSE),
                    ![Len(fr)].k = @ + 1]

\* resolve_protocol(name), from its entry to its first recursive call.
resolve_protocol(name) ==
    IF resolved[name] # <<>>
    THEN /\ frames' = Deliver(frames, resolved[name][1])
         /\ UNCHANGED <<resolving, result>>
    ELSE IF name \in resolving
    THEN /\ Fail("cycle")
         /\ UNCHANGED resolving
    ELSE /\ resolving' = resolving \cup {name}
         /\ IF lookup(name) = <<>>
            THEN Fail("missing")
            ELSE /\ frames' = Append(frames,
                        [name |-> name, schema |-> lookup(name)[1], k |-> 1,
                         combined |-> ProtocolSchema(lookup(name)[1].protocol, <<>>,
                                                     EmptyMap, EmptyMap)])
                 /\ UNCHANGED result

\* `for name in names { resolve_protocol(&name, ..)?; }`: the keys of a HashMap
\* come in any order.
resolve_protocols_loop ==
    /\ result = "running"
    /\ frames = <<>>
    /\ \E n \in names :
        /\ names' = names \ {n}
        /\ resolve_protocol(n)
    /\ UNCHANGED <<raw, resolved, networkVars, renderVars, exportVars>>

resolve_protocols_return ==
    /\ result = "running"
    /\ frames = <<>>
    /\ names = {}
    /\ result' = "ok"
    /\ UNCHANGED <<raw, resolved, resolving, names, frames, networkVars, renderVars, exportVars>>

\* `for include in &schema.includes { resolve_protocol(include, ..)? .. }`.
resolve_include ==
    /\ result = "running"
    /\ frames # <<>>
    /\ LET top == frames[Len(frames)]
       IN  /\ top.k <= Len(top.schema.includes)
           /\ resolve_protocol(top.schema.includes[top.k])
    /\ UNCHANGED <<raw, resolved, names, networkVars, renderVars, exportVars>>

\* The end of resolve_protocol: absorb the schema itself, validate, publish.
resolve_finish ==
    /\ result = "running"
    /\ frames # <<>>
    /\ LET top == frames[Len(frames)]
           combined == [ProtocolSchema_absorb(top.combined, top.schema, TRUE)
                            EXCEPT !.includes = <<>>]
       IN  /\ top.k > Len(top.schema.includes)
           /\ IF ~validate_templates(combined)
              THEN /\ Fail("template")
                   /\ UNCHANGED <<resolving, resolved>>
              ELSE /\ resolving' = resolving \ {top.name}
                   /\ resolved' = [resolved EXCEPT ![top.name] = <<combined>>]
                   /\ frames' = Deliver(SubSeq(frames, 1, Len(frames) - 1), combined)
                   /\ UNCHANGED result
    /\ UNCHANGED <<raw, names, networkVars, renderVars, exportVars>>

ResolveNext ==
    \/ resolve_protocols_loop
    \/ resolve_protocols_return
    \/ resolve_include
    \/ resolve_finish

\* ---------------------------------------------------------- render_template
\* Result<Option<Value>>.
RenderOk(opt) == [st |-> "ok", val |-> opt, msg |-> <<>>]
RenderErr(what, from) == [st |-> "err", val |-> <<>>, msg |-> <<what, from>>]

\* The keys of the model's maps, in the order a BTreeMap iterates over them.
KeyOrder == <<"f", "g", "k", "name", "port", "r", "server", "type">>
SortedKeys(map) == SelectSeq(KeyOrder, LAMBDA k : k \in DOMAIN map)

\* The Field arm of render_template, and a variant that injects the default
\* for an absent key.
render_field_inject(field, c) ==
    IF field.from \in DOMAIN c
    THEN IF field.default # <<>> /\ c[field.from] = field.default[1]
         THEN RenderOk(<<>>)
         ELSE RenderOk(<<c[field.from]>>)
    ELSE IF field.default # <<>> THEN RenderOk(field.default)
    ELSE IF field.optional THEN RenderOk(<<>>)
    ELSE RenderErr("missing required field", field.from)

render_field(field, c) ==
    IF field.from \in DOMAIN c
    THEN IF field.default # <<>> /\ c[field.from] = field.default[1]
         THEN RenderOk(<<>>)
         ELSE RenderOk(<<c[field.from]>>)
    ELSE IF field.default # <<>> THEN RenderOk(<<>>)
    ELSE IF field.optional THEN RenderOk(<<>>)
    ELSE RenderErr("missing required field", field.from)

RECURSIVE render_template(_, _)
RECURSIVE render_object(_, _)
RECURSIVE render_sequence(_, _)

\* The first Err in iteration order is returned; otherwise the keys whose
\* template rendered to Some make up the object, which may be empty.
render_object(map, c) ==
    LET keys == SortedKeys(map)
        r(k) == render_template(map[k], c)
        failed == SelectSeq(keys, LAMBDA k : r(k).st = "err")
    IN  IF failed # <<>> THEN r(failed[1])
        ELSE RenderOk(<<[kind |-> "object",
                         map |-> [k \in {x \in DOMAIN map : r(x).val # <<>>} |->
                                    r(k).val[1]]]>>)

\* The items that rendered to Some, in order; None when there is none.
render_sequence(items, c) ==
    LET r(i) == render_template(items[i], c)
        idx == [i \in 1..Len(items) |-> i]
        failed == SelectSeq(idx, LAMBDA i : r(i).st = "err")
        kept == SelectSeq(idx, LAMBDA i : r(i).val # <<>>)
    IN  IF failed # <<>> THEN r(failed[1])
        ELSE IF kept = <<>> THEN RenderOk(<<>>)
        ELSE RenderOk(<<[kind |-> "array",
                         items |-> [j \in 1..Len(kept) |-> r(kept[j]).val[1]]]>>)

render_template(tmpl, c) ==
    CASE tmpl.tag = "Literal" -> RenderOk(<<tmpl.value>>)
      [] tmpl.tag = "Field" -> render_field(tmpl, c)
      [] tmpl.tag = "Object" -> render_object(tmpl.map, c)
      [] tmpl.tag = "Sequence" -> render_sequence(tmpl.items, c)

\* The templates and the normalized maps render_template is applied to.
FieldNames == {"f", "g"}
FieldTemplates ==
    {Field(from, optional, default) :
        from \in FieldNames, optional \in BOOLEAN,
        default \in {<<>>} \cup {<<v>> : v \in Values}}
Templates ==
    FieldTemplates
        \cup {Literal(JValue("string", 1))}
        \cup {Sequence(<<Field("f", TRUE, <<>>), Field("g", o, <<>>)>>) : o \in BOOLEAN}
        \cup {Object(("k" :> Literal(JNull)) @@ ("r" :> Field("g", o, <<>>))) :
                o \in BOOLEAN}
Contexts == UNION {[present -> Values] : present \in SUBSET FieldNames}

InitRender ==
    /\ template \in Templates
    /\ ctx \in Contexts
    /\ rendered = <<>>

\* Nothing to render.
InitNoRender ==
    /\ template = Literal(JNull)
    /\ ctx = EmptyMap
    /\ rendered = <<RenderOk(<<JNull>>)>>

Render ==
    /\ rendered = <<>>
    /\ rendered' = <<render_template(template, ctx)>>
    /\ UNCHANGED <<template, ctx, networkVars, schemaVars, exportVars>>

\* ------------------------------------------- render_target and FieldPruner
\* Value::String(protocol): protocol names are numbered as string values are.
TypeOf(protocol) == JValue("string", protocol)
Protocol == 1

\* render_target: render_object on the target's template map, then
\* `map.entry("type").or_insert(Value::String(protocol))`.
render_target(protocol, tmpl, normalized) ==
    LET r == render_object(tmpl, normalized)
    IN  IF r.st = "err" THEN r
        ELSE LET map == r.val[1].map
             IN  RenderOk(<<[kind |-> "object",
                             map |-> IF "type" \in DOMAIN map THEN map
                                     ELSE map @@ ("type" :> TypeOf(protocol))]>>)

\* The loop of FieldPruner::render over the template's keys: the keys it
\* removes from the map that `retain` left.
pruned_keys(tmpl, normalized, map) ==
    {k \in DOMAIN tmpl :
        /\ tmpl[k].tag = "Field"
        /\ \/ tmpl[k].optional /\ tmpl[k].from \notin DOMAIN normalized
           \/ /\ tmpl[k].default # <<>>
              /\ k \in DOMAIN map
              /\ map[k] = tmpl[k].default[1]}

\* FieldPruner::render on an object, and a variant without the `retain` on
\* the template's keys.
FieldPruner_no_retain(tmpl, normalized, value) ==
    [value EXCEPT !.map =
        [k \in DOMAIN value.map \ pruned_keys(tmpl, normalized, value.map) |->
            value.map[k]]]

FieldPruner(tmpl, normalized, value) ==
    LET map == [k \in DOMAIN value.map \cap DOMAIN tmpl |-> value.map[k]]
    IN  [value EXCEPT !.map =
            [k \in DOMAIN map \ pruned_keys(tmpl, normalized, map) |-> map[k]]]

\* The target templates render_target is applied to.
TargetKeys == {"k", "type"}
KeyTemplates ==
    FieldTemplates
        \cup {Literal(JValue("string", 2)), Object(EmptyMap), Sequence(<<>>),
              Object(("r" :> Field("f", TRUE, <<>>))),
              Sequence(<<Field("f", TRUE, <<>>)>>),
              Sequence(<<Sequence(<<Field("g", FALSE, <<JValue("integer", 1)>>)>>)>>)}
TargetTemplates == UNION {[keys -> KeyTemplates] : keys \in SUBSET TargetKeys}

InitTarget ==
    /\ template \in {Object(map) : map \in TargetTemplates}
    /\ ctx \in Contexts
    /\ rendered = <<>>
    /\ pruned = <<>>

\* No /sub render and no convert call under way.
InitNoSub ==
    /\ args = <<>>
    /\ target = "clash"
    /\ sort = FALSE
    /\ proxies = <<>>
    /\ stage = "done"
    /\ doc = <<>>
    /\ failure = <<>>
    /\ converted = <<>>

\* No group to build.
InitNoGroups ==
    /\ specs = <<>>
    /\ groups = <<>>
    /\ rebuilt = <<>>

\* No rule to parse, to load or to reorder.
InitNoRules ==
    /\ line = [line |-> <<>>, group |-> <<>>]
    /\ parsed_rule = <<>>
    /\ rule_text = <<>>
    /\ rulesets = <<>>
    /\ rules = <<>>
    /\ reordered = <<>>
    /\ again = <<>>

\* No /sub request.
InitNoRequest ==
    /\ state_pref = [common |-> [api_access_token |-> <<>>, enable_insert |-> FALSE,
                                 prepend_insert_url |-> FALSE,
                                 default_url |-> <<>>, insert_url |-> <<>>]]
    /\ params = [url |-> <<>>, token |-> <<<<>>, <<>>>>]
    /\ profiles = <<<<>>, <<>>>>
    /\ response = <<<<>>, <<>>>>

\* No API request: a runtime built at startup from a pref file without token.
InitNoApi ==
    /\ pref_file = [common |-> [api_access_token |-> <<>>]]
    /\ runtime = [pref |-> [of |-> 0, common |-> [api_access_token |-> <<>>]],
                  registry |-> [of |-> 0], network |-> [of |-> 0]]
    /\ api = <<>>
    /\ builds = 0
    /\ requests = 0

\* No request to the server, nothing to emit.
InitNoServer ==
    /\ InitNoRequest
    /\ InitNoApi
    /\ proxy_group = <<>>
    /\ emitted = [clash |-> <<>>, surge |-> <<>>, rule |-> <<>>, groups |-> <<>>]

\* No export pass under way.
InitNoExport ==
    /\ pruned = <<>>
    /\ InitNoSub
    /\ InitNoGroups
    /\ InitNoRules
    /\ InitNoServer

RenderTarget ==
    /\ rendered = <<>>
    /\ rendered' = <<render_target(Protocol, template.map, ctx)>>
    /\ UNCHANGED <<template, ctx, pruned, subVars, groupVars, ruleVars, serverVars, networkVars, schemaVars>>

\* The FieldPruner pass of convert, which runs when render_target returned Ok.
Prune ==
    /\ rendered # <<>>
    /\ rendered[1].st = "ok"
    /\ pruned = <<>>
    /\ pruned' = <<FieldPruner(template.map, ctx, rendered[1].val[1])>>
    /\ UNCHANGED <<renderVars, subVars, groupVars, ruleVars, serverVars, networkVars, schemaVars>>

TargetNext == RenderTarget \/ Prune

\* ------------------------------------------------------------------ convert
\* serde_json's Number for the integers: N::NegInt holds an i64 below zero,
\* N::PosInt a u64. The magnitude is four 16-bit limbs, the highest first.
JString(s) == JValue("string", s)
JNumber(neg, limbs) == [kind |-> "integer", v |-> [neg |-> neg, limbs |-> limbs]]

\* Value::as_i64: Some for a NegInt, and for a PosInt up to i64::MAX.
as_i64(value) ==
    IF value.kind = "integer" /\ (value.v.neg \/ value.v.limbs[1] < 2^15)
    THEN <<value.v>>
    ELSE <<>>

\* Value::as_u64: Some for a PosInt.
as_u64(value) ==
    IF value.kind = "integer" /\ ~value.v.neg THEN <<value.v>> ELSE <<>>

\* `p as i64` on a u64: the value modulo 2^64, read as two's complement.
u64_as_i64(n) ==
    IF n.limbs[1] < 2^15 THEN n
    ELSE LET c == [i \in 1..4 |-> 2^16 - 1 - n.limbs[i]]
             s4 == c[4] + 1
             s3 == c[3] + s4 \div 2^16
             s2 == c[2] + s3 \div 2^16
             s1 == c[1] + s2 \div 2^16
         IN  [neg |-> TRUE,
              limbs |-> <<s1 % 2^16, s2 % 2^16, s3 % 2^16, s4 % 2^16>>]

\* (1..=65535).contains(&port)
port_in_range(port) ==
    /\ ~port.neg
    /\ port.limbs[1] = 0 /\ port.limbs[2] = 0 /\ port.limbs[3] = 0
    /\ port.limbs[4] >= 1

\* ShadowsocksModule::validate and TrojanModule::validate, TRUE for Ok. The
\* maps of the model have no `udp-over-tcp-version`.
validate_port(normalized) ==
    LET port == IF "port" \in DOMAIN normalized
                THEN as_i64(normalized["port"])
                ELSE <<>>
    IN  port # <<>> => port_in_range(port[1])

\* The resolved registry: shadowsocks renders to both targets, trojan is not
\* implemented for surge, vmess not for clash, http has no surge target.
ProxyFields ==
    ("name" :> FieldSpec("string")) @@ ("server" :> FieldSpec("string"))
        @@ ("port" :> FieldSpec("integer"))
ProxyTemplate(port_optional) ==
    ("name" :> Field("name", FALSE, <<>>)) @@ ("server" :> Field("server", FALSE, <<>>))
        @@ ("port" :> Field("port", port_optional, <<>>))
Protocols ==
    ("shadowsocks" :> ProtocolSchema("shadowsocks", <<>>, ProxyFields,
        ("clash" :> TargetSchema(ProxyTemplate(FALSE) @@ ("type" :> Literal(JString("ss"))),
                                 <<>>, <<>>))
        @@ ("surge" :> TargetSchema(ProxyTemplate(FALSE), <<>>, <<>>))))
    @@ ("trojan" :> ProtocolSchema("trojan", <<>>, ProxyFields,
        ("clash" :> TargetSchema(ProxyTemplate(FALSE), <<>>, <<FALSE>>))
        @@ ("surge" :> TargetSchema(ProxyTemplate(FALSE), <<>>, <<TRUE>>))))
    @@ ("vmess" :> ProtocolSchema("vmess", <<>>, ProxyFields,
        ("clash" :> TargetSchema(ProxyTemplate(FALSE), <<>>, <<TRUE>>))
        @@ ("surge" :> TargetSchema(ProxyTemplate(TRUE), <<>>, <<>>))))
    @@ ("http" :> ProtocolSchema("http", <<>>, ProxyFields,
        ("clash" :> TargetSchema(ProxyTemplate(TRUE), <<>>, <<>>))))
\* register_builtin_modules
Modules == {"trojan", "shadowsocks"} \cap DOMAIN Protocols

\* ProtocolSchema::normalize: the first declared field, in key order, whose
\* value has the wrong type fails it; otherwise every key of values is copied.
normalize(schema, values) ==
    LET bad == SelectSeq(SortedKeys(schema.fields),
                         LAMBDA k : k \in DOMAIN values
                                    /\ ~matches(schema.fields[k].ty, values[k]))
    IN  IF bad # <<>> THEN RenderErr("expected type", bad[1])
        ELSE RenderOk(<<values>>)

\* TypeInjector::render
TypeInjector(protocol, value) ==
    IF "type" \in DOMAIN value.map THEN value
    ELSE [value EXCEPT !.map = @ @@ ("type" :> JString(protocol))]

\* SurgeExporter::render and render_common_line. The line is kept as its
\* parts. The templates of the model have no cipher and no plugin key, so
\* normalize_shadowsocks only sets the type.
SurgeExporter(protocol, normalized, value) ==
    LET map == IF protocol = "shadowsocks"
               THEN [k \in DOMAIN value.map \cup {"type"} |->
                        IF k = "type" THEN JString("ss") ELSE value.map[k]]
               ELSE value.map
        is_string(m, k) == k \in DOMAIN m /\ m[k].kind = "string"
        port == IF "port" \notin DOMAIN map THEN <<>>
                ELSE IF as_i64(map["port"]) # <<>> THEN as_i64(map["port"])
                ELSE IF as_u64(map["port"]) # <<>>
                     THEN <<u64_as_i64(as_u64(map["port"])[1])>>
                ELSE <<>>
    IN  IF ~is_string(normalized, "name") THEN RenderErr("surge export requires", "name")
        ELSE IF ~is_string(map, "server") THEN RenderErr("surge export requires", "server")
        ELSE IF port = <<>> THEN RenderErr("surge export requires numeric", "port")
        ELSE IF ~is_string(map, "type") THEN RenderErr("surge export requires", "type")
        ELSE RenderOk(<<JString(
                [name |-> normalized["name"].v, type |-> map["type"].v,
                 server |-> map["server"].v, port |-> port[1],
                 rest |-> [k \in DOMAIN map \ {"name", "type", "server", "port"} |->
                            map[k]]])>>)

\* SchemaRegistry::convert
convert(protocol, tgt, values) ==
    IF protocol \notin DOMAIN Protocols THEN RenderErr("is not registered", protocol)
    ELSE IF tgt \notin DOMAIN Protocols[protocol].targets
    THEN RenderErr("does not support target", protocol)
    ELSE
    LET schema == Protocols[protocol]
        target_schema == schema.targets[tgt]
        checked == normalize(schema, values)
        normalized == checked.val[1]
        object == render_target(protocol, target_schema.template, normalized)
        passed == TypeInjector(protocol,
                      FieldPruner(target_schema.template, normalized, object.val[1]))
    IN  IF target_schema.not_implemented = <<TRUE>>
        THEN RenderErr("is not implemented", protocol)
        ELSE IF checked.st = "err" THEN checked
        ELSE IF protocol \in Modules /\ ~validate_port(normalized)
        THEN RenderErr("port out of range", protocol)
        ELSE IF object.st = "err" THEN object
        ELSE IF tgt = "surge" THEN SurgeExporter(protocol, normalized, passed)
        ELSE RenderOk(<<passed>>)

\* ------------------------------------------------ render_clash, render_surge
Proxy(name, protocol, values) == [name |-> name, protocol |-> protocol, values |-> values]
\* The proxy names, in the order of str::cmp.
Names == <<"a", "b">>
Targets == {"clash", "surge"}

\* SchemaRegistry::target_not_implemented, and a variant that never says so.
target_not_implemented_never(protocol, tgt) == FALSE

target_not_implemented(protocol, tgt) ==
    /\ protocol \in DOMAIN Protocols
    /\ tgt \in DOMAIN Protocols[protocol].targets
    /\ Protocols[protocol].targets[tgt].not_implemented = <<TRUE>>

\* `proxies.sort_by(|a, b| a.name.cmp(&b.name))`, a stable sort.
RECURSIVE sort_by_name(_, _)
sort_by_name(list, i) ==
    IF i > Len(Names) THEN <<>>
    ELSE SelectSeq(list, LAMBDA p : p.name = Names[i]) \o sort_by_name(list, i + 1)

\* The proxies a render is given: shadowsocks, trojan and vmess proxies, and
\* a shadowsocks proxy whose port is out of range.
Zero == JNumber(FALSE, <<0, 0, 0, 0>>)
Https == JNumber(FALSE, <<0, 0, 0, 443>>)
ProxyValues(name, port) ==
    ("name" :> JString(name)) @@ ("server" :> JString("s.example")) @@ ("port" :> port)
SubProxies ==
    {Proxy(Names[i], protocol, ProxyValues(Names[i], Https)) :
        i \in 1..Len(Names), protocol \in {"shadowsocks", "trojan", "vmess"}}
        \cup {Proxy(Names[i], "shadowsocks", ProxyValues(Names[i], Zero)) :
                i \in 1..Len(Names)}

\* Before render_clash or render_surge runs; [node_pref] sets nothing, so
\* apply_node_pref changes nothing.
InitSub ==
    /\ args \in UNION {[1..n -> SubProxies] : n \in 0..MaxProxies}
    /\ target \in Targets
    /\ sort \in BOOLEAN
    /\ proxies = args
    /\ stage = "start"
    /\ doc = <<>>
    /\ failure = <<>>
    /\ converted = <<>>
    /\ pruned = <<>>

\* `proxies.retain(|proxy| !registry.target_not_implemented(..))`
retain_implemented ==
    /\ stage = "start"
    /\ proxies' = SelectSeq(proxies,
                            LAMBDA p : ~target_not_implemented(p.protocol, target))
    /\ stage' = "retained"
    /\ UNCHANGED <<args, target, sort, doc, failure, converted, pruned>>
    /\ UNCHANGED <<networkVars, schemaVars, renderVars, groupVars, ruleVars, serverVars>>

\* `if pref.common.sort { proxies.sort_by(..) }`
sort_proxies ==
    /\ stage = "retained"
    /\ proxies' = IF sort THEN sort_by_name(proxies, 1) ELSE proxies
    /\ stage' = "convert"
    /\ UNCHANGED <<args, target, sort, doc, failure, converted, pruned>>
    /\ UNCHANGED <<networkVars, schemaVars, renderVars, groupVars, ruleVars, serverVars>>

\* One proxy of the loop that converts the proxies in order; the first Err
\* ends the render.
convert_proxy ==
    /\ stage = "convert"
    /\ Len(doc) < Len(proxies)
    /\ LET p == proxies[Len(doc) + 1]
           r == convert(p.protocol, target, p.values)
       IN  IF r.st = "err"
           THEN /\ failure' = <<r>>
                /\ stage' = "failed"
                /\ UNCHANGED doc
           ELSE /\ doc' = Append(doc, r.val[1])
                /\ UNCHANGED <<failure, stage>>
    /\ UNCHANGED <<args, target, sort, proxies, converted, pruned>>
    /\ UNCHANGED <<networkVars, schemaVars, renderVars, groupVars, ruleVars, serverVars>>

\* The rest of the render, with no group and no rule configured.
render_done ==
    /\ stage = "convert"
    /\ Len(doc) = Len(proxies)
    /\ stage' = "done"
    /\ UNCHANGED <<args, target, sort, proxies, doc, failure, converted, pruned>>
    /\ UNCHANGED <<networkVars, schemaVars, renderVars, groupVars, ruleVars, serverVars>>

\* A direct call of convert, on a proxy of the list and any target.
direct_convert ==
    /\ stage = "start"
    /\ \E i \in 1..Len(args), tgt \in Targets :
        converted' = <<[protocol |-> args[i].protocol, target |-> tgt,
                        values |-> args[i].values,
                        result |-> convert(args[i].protocol, tgt, args[i].values)]>>
    /\ stage' = "direct"
    /\ UNCHANGED <<args, target, sort, proxies, doc, failure, pruned>>
    /\ UNCHANGED <<networkVars, schemaVars, renderVars, groupVars, ruleVars, serverVars>>

SubNext ==
    \/ retain_implemented
    \/ sort_proxies
    \/ convert_proxy
    \/ render_done
    \/ direct_convert

\* The maps convert is called on directly: every port of PortNumbers, a port
\* that is no integer, and no port.
LimbValues == {0, 1, 2^15 - 1, 2^15, 2^16 - 1}
PortNumbers ==
    {JNumber(FALSE, limbs) : limbs \in [1..4 -> LimbValues]}
        \cup {JNumber(TRUE, limbs) :
                limbs \in {l \in [1..4 -> LimbValues] :
                             /\ l # <<0, 0, 0, 0>>
                             /\ l[1] < 2^15 \/ l = <<2^15, 0, 0, 0>>}}
ConvertProxies ==
    {Proxy("a", protocol, ProxyValues("a", port)) :
        protocol \in DOMAIN Protocols \cup {"socks5"},
        port \in PortNumbers \cup {JValue("float", Https.v)}}
    \cup {Proxy("a", protocol, ("name" :> JString("a"))) : protocol \in DOMAIN Protocols}

InitConvert ==
    /\ args \in {<<p>> : p \in ConvertProxies}
    /\ target = "clash"
    /\ sort = FALSE
    /\ proxies = args
    /\ stage = "start"
    /\ doc = <<>>
    /\ failure = <<>>
    /\ converted = <<>>
    /\ pruned = <<>>

\* ------------------------------------------------------------- build_groups
\* A String is the sequence of its characters.
Range(s) == {s[i] : i \in 1..Len(s)}

\* str::strip_prefix("[]"): Option of the rest.
strip_prefix(rule) ==
    IF Len(rule) >= 2 /\ rule[1] = "[" /\ rule[2] = "]"
    THEN <<SubSeq(rule, 3, Len(rule))>>
    ELSE <<>>

\* str::trim
RECURSIVE trim(_)
trim(s) ==
    IF s = <<>> THEN s
    ELSE IF s[1] = " " THEN trim(Tail(s))
    ELSE IF s[Len(s)] = " " THEN trim(SubSeq(s, 1, Len(s) - 1))
    ELSE s

\* Regex::new on the patterns made of literal characters, `.` and a postfix
\* `*`: a pattern that starts with `*` does not compile.
Regex_new(pattern) == pattern = <<>> \/ pattern[1] # "*"

\* Regex::is_match: the pattern matches at some position of the text.
RECURSIVE match_here(_, _, _, _)
match_here(pattern, i, text, j) ==
    IF i > Len(pattern) THEN TRUE
    ELSE LET one(c) == pattern[i] = "." \/ pattern[i] = c
         IN  IF i < Len(pattern) /\ pattern[i + 1] = "*"
             THEN \E k \in j..(Len(text) + 1) :
                    /\ \A m \in j..(k - 1) : one(text[m])
                    /\ match_here(pattern, i + 2, text, k)
             ELSE /\ j <= Len(text)
                  /\ one(text[j])
                  /\ match_here(pattern, i + 1, text, j + 1)

is_match(pattern, text) ==
    \E j \in 1..(Len(text) + 1) : match_here(pattern, 1, text, j)

\* push_unique, with `seen` the set of what `out` holds, and a variant that
\* pushes in every case.
push_always(out, value) == Append(out, value)

push_unique(out, value) ==
    IF value \in Range(out) THEN out ELSE Append(out, value)

RECURSIVE push_all_unique(_, _)
push_all_unique(out, values) ==
    IF values = <<>> THEN out
    ELSE push_all_unique(push_unique(out, Head(values)), Tail(values))

GroupOk(value) == [st |-> "ok", val |-> value, msg |-> <<>>]
GroupErr(what) == [st |-> "err", val |-> <<>>, msg |-> <<what>>]

\* The allowed references of build_groups, and a variant without DIRECT and
\* REJECT.
allowed_groups_declared(list) == {sp.name : sp \in Range(list)}

allowed_groups(list) ==
    {sp.name : sp \in Range(list)}
        \cup {<<"D", "I", "R", "E", "C", "T">>, <<"R", "E", "J", "E", "C", "T">>}

\* The loop of build_group over the rules of a spec, from rule i on.
RECURSIVE build_rules(_, _, _, _, _)
build_rules(rule, i, out, allowed, proxy_names) ==
    IF i > Len(rule) THEN GroupOk(out)
    ELSE LET r == rule[i]
         IN  IF strip_prefix(r) # <<>>
             THEN IF trim(strip_prefix(r)[1]) = <<>>
                  THEN GroupErr("empty group reference")
                  ELSE IF trim(strip_prefix(r)[1]) \notin allowed
                  THEN GroupErr("references unknown group")
                  ELSE build_rules(rule, i + 1, push_unique(out, r), allowed, proxy_names)
             ELSE IF r \in Range(proxy_names)
             THEN build_rules(rule, i + 1, push_unique(out, r), allowed, proxy_names)
             ELSE IF ~Regex_new(r) THEN GroupErr("failed to compile regex")
             ELSE build_rules(rule, i + 1,
                      push_all_unique(out,
                          SelectSeq(proxy_names, LAMBDA name : is_match(r, name))),
                      allowed, proxy_names)

GroupSpec(name, rule) == [name |-> name, rule |-> rule]
ProxyGroup(name, members) == [name |-> name, proxies |-> members]

build_group(spec, allowed, proxy_names) ==
    LET r == build_rules(spec.rule, 1, <<>>, allowed, proxy_names)
    IN  IF r.st = "err" THEN r ELSE GroupOk(ProxyGroup(spec.name, r.val))

\* The loop of build_groups over the specs, from spec i on: a spec whose name
\* is resolved already is skipped, the first Err is returned.
RECURSIVE build_specs(_, _, _, _)
build_specs(list, i, out, proxy_names) ==
    IF i > Len(list) THEN GroupOk(out)
    ELSE IF list[i].name \in {g.name : g \in Range(out)}
    THEN build_specs(list, i + 1, out, proxy_names)
    ELSE LET g == build_group(list[i], allowed_groups(list), proxy_names)
         IN  IF g.st = "err" THEN g
             ELSE build_specs(list, i + 1, Append(out, g.val), proxy_names)

build_groups(list, proxy_list) ==
    build_specs(list, 1, <<>>, [i \in 1..Len(proxy_list) |-> proxy_list[i].name])

\* The rules and the proxy names build_groups is given: references to the
\* groups G and H and to DIRECT, an empty reference, a regex that matches
\* every name and one that does not compile; a proxy named like that regex
\* and one named like a reference.
NameG == <<"G">>
NameH == <<"H">>
RuleStrings ==
    {<<"[", "]", "G">>, <<"[", "]", " ", "H">>, <<"[", "]", " ">>,
     <<"[", "]", "D", "I", "R", "E", "C", "T">>, <<".">>, <<"*">>}
NameStrings == {<<".">>, <<"[", "]", "H">>}
RuleLists == UNION {[1..n -> RuleStrings] : n \in 0..MaxRules}
SpecLists ==
    {<<GroupSpec(NameG, rule)>> : rule \in RuleLists}
        \cup {<<GroupSpec(NameG, r1), GroupSpec(n2, r2)>> :
                r1 \in RuleLists, n2 \in {NameG, NameH},
                r2 \in {r \in RuleLists : Len(r) < MaxRules}}

InitGroups ==
    /\ specs \in {l \in SpecLists : Len(l) = 2 => Len(l[1].rule) + Len(l[2].rule) <= MaxRules + 1}
    /\ proxies \in UNION {[1..n -> {Proxy(name, "shadowsocks", EmptyMap) : name \in NameStrings}] :
                            n \in 0..MaxNames}
    /\ groups = <<>>
    /\ rebuilt = <<>>
    /\ args = <<>>
    /\ target = "clash"
    /\ sort = FALSE
    /\ stage = "done"
    /\ doc = <<>>
    /\ failure = <<>>
    /\ converted = <<>>
    /\ pruned = <<>>

build ==
    /\ groups = <<>>
    /\ groups' = <<build_groups(specs, proxies)>>
    /\ UNCHANGED <<specs, rebuilt, pruned, subVars, ruleVars, serverVars, networkVars, schemaVars, renderVars>>

\* build_group on a spec of the same name whose rules are the members of a
\* group that build_groups returned, with the same proxies and declared groups.
rebuild ==
    /\ groups # <<>>
    /\ groups[1].st = "ok"
    /\ rebuilt = <<>>
    /\ \E i \in 1..Len(groups[1].val) :
        rebuilt' = <<[of |-> i,
                      result |-> build_group(
                          GroupSpec(groups[1].val[i].name, groups[1].val[i].proxies),
                          allowed_groups(specs),
                          [k \in 1..Len(proxies) |-> proxies[k].name])]>>
    /\ UNCHANGED <<specs, groups, pruned, subVars, ruleVars, serverVars, networkVars, schemaVars, renderVars>>

GroupsNext == build \/ rebuild

\* A Network that is not in use.
InitNoNetwork ==
    /\ ttl = 0
    /\ cache_enabled = FALSE
    /\ allowed_domain = <<>>
    /\ allowed_domains = <<>>
    /\ entries = [u \in Urls |-> <<>>]
    /\ dirent = [p \in Paths |-> NoFile]
    /\ idata = [i \in Inodes |-> <<>>]
    /\ now = 0

\* ------------------------------------------------------------ specifications
StoreStep(t) ==
    \/ store_create(t)
    \/ store_write(t)
    \/ store_rename(t)
    \/ store_insert(t)

ReadStep(t) ==
    \/ get_valid_entry(t)
    \/ remove_expired(t)
    \/ read_file(t)
    \/ evict(t)
    \/ evict_remove_file(t)

CacheStep(t) == StoreStep(t) \/ ReadStep(t) \/ TakeResult(t)

AllIdle == \A t \in Procs : pc[t] = "idle"
OthersIdle(t) == \A o \in Procs \ {t} : pc[o] = "idle"

\* Sequential histories of one CacheStore: a call runs to its end before the
\* next starts; the clock and the disk change between calls.
SeqNext ==
    \/ \E u \in CacheUrls, x \in Texts : AllIdle /\ CallStore(1, u, x)
    \/ \E u \in CacheUrls : AllIdle /\ CallRead(1, u)
    \/ \E t \in Procs : OthersIdle(t) /\ CacheStep(t)
    \/ AllIdle /\ Tick
    \/ \E u \in CacheUrls, i \in 1..2, b \in AsciiBytes \cup {BadByte} :
            AllIdle /\ Perturb(u, i, b)
    \/ \E u \in CacheUrls : AllIdle /\ Unlink(u)

\* Concurrent tasks on one CacheStore: the steps of their calls interleave at
\* every await.
ConcNext ==
    \/ \E t \in Procs, u \in CacheUrls, x \in Texts : CallStore(t, u, x)
    \/ \E t \in Procs, u \in CacheUrls : CallRead(t, u)
    \/ \E t \in Procs : CacheStep(t)
    \/ Tick

\* Concurrent store calls that run to their end, and a read that starts once
\* they have all returned.
NoReadRunning == \A t \in Procs : call[t].op # "read"
StoresNext ==
    \/ \E t \in Procs, u \in CacheUrls, x \in Texts : NoReadRunning /\ CallStore(t, u, x)
    \/ \E t \in Procs : StoreStep(t)
    \/ \E t \in Procs : TakeResult(t)
    \/ \E u \in CacheUrls : AllIdle /\ CallRead(1, u)
    \/ ReadStep(1)
    \/ AllIdle /\ Tick

\* One task that stores and one that reads, on one CacheStore: the store
\* calls follow one another, the reads run beside them.
RaceNext ==
    \/ \E u \in CacheUrls, x \in Texts : CallStore(1, u, x)
    \/ StoreStep(1)
    \/ \E u \in CacheUrls : CallRead(2, u)
    \/ ReadStep(2)
    \/ \E t \in Procs : TakeResult(t)
    \/ Tick

\* Concurrent store calls, each of which may be aborted at an await.
AbortNext ==
    \/ \E t \in Procs, u \in CacheUrls, x \in Texts : CallStore(t, u, x)
    \/ \E t \in Procs : StoreStep(t)
    \/ \E t \in Procs : TakeResult(t)
    \/ \E t \in Procs : Cancel(t)

\* Sequential histories of get_or_fetch_with calls on one Network, under each
\* configuration of the allow-list and of the cache switch. Nothing but the
\* program touches the cache directory, so read never has to evict.
AllowLists == {<<>>, <<HostLowerA>>, <<HostUpperA, HostLowerB>>}

InitNet ==
    /\ ttl \in {0, MaxTtl}
    /\ cache_enabled \in BOOLEAN
    /\ allowed_domain \in AllowLists
    /\ allowed_domains = SecurityNew(allowed_domain)
    /\ entries = [u \in Urls |-> <<>>]
    /\ dirent = [p \in Paths |-> NoFile]
    /\ idata = [i \in Inodes |-> <<>>]
    /\ now = 0

NetNext ==
    \/ \E u \in FetchUrls, uas \in UALists, nc \in BOOLEAN, f \in ParseFns :
            AllIdle /\ CallFetch(1, u, uas, nc, f)
    \/ FetchStep(1)
    \/ StoreStep(1)
    \/ get_valid_entry(1)
    \/ remove_expired(1)
    \/ read_file(1)
    \/ TakeResult(1)
    \/ AllIdle /\ Tick

Init == InitCache /\ InitTasks /\ InitHist /\ InitSchema /\ InitNoRender /\ InitNoExport

SpecSeq == Init /\ [][SeqNext]_vars
SpecConc == Init /\ [][ConcNext]_vars
SpecAbort == Init /\ [][AbortNext]_vars
SpecStores == Init /\ [][StoresNext]_vars
SpecRace == Init /\ [][RaceNext]_vars
NetInit == InitNet /\ InitTasks /\ InitHist /\ InitSchema /\ InitNoRender /\ InitNoExport
SpecNet == NetInit /\ [][NetNext]_vars

\* resolve_protocols on every includes graph within the bounds. A step the
\* code can take is eventually taken.
ResolveInit == InitResolve /\ InitNoNetwork /\ InitTasks /\ InitHist /\ InitNoRender
               /\ InitNoExport
SpecResolve == ResolveInit /\ [][ResolveNext]_vars /\ WF_vars(ResolveNext)

\* render_template on every template and normalized map within the bounds.
RenderInit == InitRender /\ InitNoNetwork /\ InitTasks /\ InitHist /\ InitSchema
              /\ InitNoExport
SpecRender == RenderInit /\ [][Render]_vars

\* render_target and then FieldPruner on every target template and normalized
\* map within the bounds.
TargetInit == InitTarget /\ InitNoSub /\ InitNoGroups /\ InitNoRules /\ InitNoServer /\ InitNoNetwork /\ InitTasks /\ InitHist /\ InitSchema
SpecTarget == TargetInit /\ [][TargetNext]_vars

\* A /sub render of every proxy list within the bounds, for both targets, and
\* direct calls of convert on the proxies of the list.
SubInit == InitSub /\ InitNoGroups /\ InitNoRules /\ InitNoServer /\ InitNoRender /\ InitNoNetwork /\ InitTasks /\ InitHist /\ InitSchema
SpecSub == SubInit /\ [][SubNext]_vars

\* convert on every protocol, target and port within the bounds.
ConvertInit ==
    InitConvert /\ InitNoGroups /\ InitNoRules /\ InitNoServer /\ InitNoRender /\ InitNoNetwork /\ InitTasks /\ InitHist /\ InitSchema
SpecConvert == ConvertInit /\ [][direct_convert]_vars

\* build_groups on every list of specs and of proxies within the bounds, and
\* build_group on what it returned.
GroupsInit == InitGroups /\ InitNoRules /\ InitNoServer /\ InitNoRender /\ InitNoNetwork /\ InitTasks /\ InitHist /\ InitSchema
SpecGroups == GroupsInit /\ [][GroupsNext]_vars

\* -------------------------------------------------------------------- rules
\* A String is the sequence of its characters; a word without a separator in
\* it stands as one character. The words in upper case, and in lower case.
to_ascii_uppercase(s) ==
    [i \in 1..Len(s) |->
        CASE s[i] = "ip-cidr" -> "IP-CIDR"
          [] s[i] = "src-ip-cidr" -> "SRC-IP-CIDR"
          [] s[i] = "final" -> "FINAL"
          [] s[i] = "no-resolve" -> "NO-RESOLVE"
          [] OTHER -> s[i]]
to_ascii_lowercase_str(s) ==
    [i \in 1..Len(s) |->
        CASE s[i] = "IP-CIDR" -> "ip-cidr"
          [] s[i] = "SRC-IP-CIDR" -> "src-ip-cidr"
          [] s[i] = "FINAL" -> "final"
          [] s[i] = "NO-RESOLVE" -> "no-resolve"
          [] OTHER -> s[i]]
eq_ignore_ascii_case(a, b) == to_ascii_uppercase(a) = to_ascii_uppercase(b)

IP_RULE_TYPES ==
    {<<"IP-CIDR">>, <<"IP-CIDR6">>, <<"IP-SUFFIX">>, <<"IP-ASN">>, <<"GEOIP">>,
     <<"SRC-GEOIP">>, <<"SRC-IP-ASN">>, <<"SRC-IP-CIDR">>, <<"SRC-IP-SUFFIX">>}
DOMAIN_RULE_TYPES ==
    {<<"DOMAIN">>, <<"DOMAIN-SUFFIX">>, <<"DOMAIN-KEYWORD">>, <<"DOMAIN-WILDCARD">>,
     <<"DOMAIN-REGEX">>, <<"GEOSITE">>}
is_supported_rule_type(raw_type) ==
    to_ascii_uppercase(raw_type) \in
        IP_RULE_TYPES \cup DOMAIN_RULE_TYPES \cup
        {<<"DST-PORT">>, <<"SRC-PORT">>, <<"IN-PORT">>, <<"IN-TYPE">>, <<"IN-USER">>,
         <<"IN-NAME">>, <<"PROCESS-PATH">>, <<"PROCESS-PATH-REGEX">>,
         <<"PROCESS-NAME">>, <<"PROCESS-NAME-REGEX">>, <<"UID">>, <<"NETWORK">>,
         <<"DSCP">>, <<"RULE-SET">>, <<"AND">>, <<"OR">>, <<"NOT">>, <<"SUB-RULE">>,
         <<"MATCH">>}

Rule(rule_type, content, group, no_resolve) ==
    [rule_type |-> rule_type, content |-> content, group |-> group,
     flags |-> [no_resolve |-> no_resolve]]

\* [String]::join(",")
RECURSIVE join(_)
join(parts) ==
    IF parts = <<>> THEN <<>>
    ELSE IF Len(parts) = 1 THEN parts[1]
    ELSE parts[1] \o <<",">> \o join(Tail(parts))

\* Rule::render
Rule_render(rule) ==
    join(<<rule.rule_type>>
         \o (IF rule.content # <<>> THEN <<rule.content[1]>> ELSE <<>>)
         \o <<rule.group>>
         \o (IF rule.flags.no_resolve THEN <<<<"no-resolve">>>> ELSE <<>>))

\* line.find("//") and the slice before it.
strip_comment(l) ==
    LET at == {i \in 1..(Len(l) - 1) : l[i] = "/" /\ l[i + 1] = "/"}
    IN  IF at = {} THEN l
        ELSE SubSeq(l, 1, (CHOOSE i \in at : \A j \in at : i <= j) - 1)

\* split_rule_parts, from character i on, with the parts, the current part
\* and the depth so far.
RECURSIVE split_from(_, _, _, _, _)
split_from(l, i, parts, current, depth) ==
    IF i > Len(l) THEN Append(parts, trim(current))
    ELSE CASE l[i] = "(" ->
                split_from(l, i + 1, parts, Append(current, l[i]), depth + 1)
           [] l[i] = ")" ->
                split_from(l, i + 1, parts, Append(current, l[i]),
                           IF depth > 0 THEN depth - 1 ELSE depth)
           [] l[i] = "," /\ depth = 0 ->
                split_from(l, i + 1, Append(parts, trim(current)), <<>>, depth)
           [] OTHER ->
                split_from(l, i + 1, parts, Append(current, l[i]), depth)

split_rule_parts(l) == split_from(l, 1, <<>>, <<>>, 0)

\* The `while let Some(last) = content_parts.last()` loop of parse_rule_line,
\* and a variant that keeps the empty parts.
RECURSIVE pop_flags_only(_, _)
pop_flags_only(content_parts, no_resolve) ==
    IF content_parts = <<>> THEN [parts |-> content_parts, no_resolve |-> no_resolve]
    ELSE LET last == content_parts[Len(content_parts)]
             rest == SubSeq(content_parts, 1, Len(content_parts) - 1)
         IN  IF to_ascii_lowercase_str(last) = <<"no-resolve">>
             THEN pop_flags_only(rest, TRUE)
             ELSE [parts |-> content_parts, no_resolve |-> no_resolve]

RECURSIVE pop_flags(_, _)
pop_flags(content_parts, no_resolve) ==
    IF content_parts = <<>> THEN [parts |-> content_parts, no_resolve |-> no_resolve]
    ELSE LET last == content_parts[Len(content_parts)]
             rest == SubSeq(content_parts, 1, Len(content_parts) - 1)
         IN  IF last = <<>> THEN pop_flags(rest, no_resolve)
             ELSE IF to_ascii_lowercase_str(last) = <<"no-resolve">>
             THEN pop_flags(rest, TRUE)
             ELSE [parts |-> content_parts, no_resolve |-> no_resolve]

\* parse_rule_line: Option of the rule; it returns no Err.
parse_rule_line(l, group) ==
    LET trimmed == trim(strip_comment(l))
        parts == split_rule_parts(trimmed)
        popped == pop_flags(Tail(parts), FALSE)
    IN  IF trimmed = <<>> \/ trimmed[1] = "#" THEN <<>>
        ELSE IF parts[1] = <<>> THEN <<>>
        ELSE IF ~is_supported_rule_type(parts[1]) THEN <<>>
        ELSE <<Rule(parts[1],
                    IF popped.parts = <<>> THEN <<>> ELSE <<join(popped.parts)>>,
                    group, popped.no_resolve)>>

is_ip_rule(rule) == \E ty \in IP_RULE_TYPES : eq_ignore_ascii_case(ty, rule.rule_type)
is_domain_rule(rule) ==
    \E ty \in DOMAIN_RULE_TYPES : eq_ignore_ascii_case(ty, rule.rule_type)

\* The second loop of reorder_rules_domain_before_ip, from rule i on, with
\* what the two iterators still hold.
RECURSIVE refill(_, _, _, _)
refill(list, i, domain_iter, ip_iter) ==
    IF i > Len(list) THEN <<>>
    ELSE IF is_ip_rule(list[i]) \/ is_domain_rule(list[i])
    THEN IF domain_iter # <<>>
         THEN <<Head(domain_iter)>> \o refill(list, i + 1, Tail(domain_iter), ip_iter)
         ELSE IF ip_iter # <<>>
         THEN <<Head(ip_iter)>> \o refill(list, i + 1, domain_iter, Tail(ip_iter))
         ELSE <<list[i]>> \o refill(list, i + 1, domain_iter, ip_iter)
    ELSE <<list[i]>> \o refill(list, i + 1, domain_iter, ip_iter)

\* reorder_rules_domain_before_ip, a variant that moves the domain rules to
\* the front of the list and a variant that fills the slots with the IP rules
\* first.
reorder_domain_to_front(list) ==
    SelectSeq(list, LAMBDA r : ~is_ip_rule(r) /\ is_domain_rule(r))
        \o SelectSeq(list, LAMBDA r : is_ip_rule(r) \/ ~is_domain_rule(r))

reorder_ip_first(list) ==
    LET ip_rules == SelectSeq(list, is_ip_rule)
        domain_rules == SelectSeq(list, LAMBDA r : ~is_ip_rule(r) /\ is_domain_rule(r))
    IN  IF ip_rules = <<>> \/ domain_rules = <<>> THEN list
        ELSE refill(list, 1, ip_rules, domain_rules)

reorder_rules_domain_before_ip(list) ==
    LET ip_rules == SelectSeq(list, is_ip_rule)
        domain_rules == SelectSeq(list, LAMBDA r : ~is_ip_rule(r) /\ is_domain_rule(r))
    IN  IF ip_rules = <<>> \/ domain_rules = <<>> THEN list
        ELSE refill(list, 1, domain_rules, ip_rules)

\* The lines parse_rule_line is given: a type, a comment sign or a blank
\* first, then any characters.
LineChars == {",", "(", ")", "/", " ", "x", "IP-CIDR", "no-resolve", "NO-RESOLVE"}
LineStrings ==
    {<<>>} \cup UNION {{<<c>> \o l : c \in {"IP-CIDR", "ip-cidr", " ", "#"},
                                       l \in [1..n -> LineChars]} :
                        n \in 0..(MaxLine - 1)}

InitParse ==
    /\ line \in {[line |-> l, group |-> <<"G">>] : l \in LineStrings}
    /\ parsed_rule = <<>>
    /\ rule_text = <<>>
    /\ rulesets = <<>>
    /\ rules = <<>>
    /\ reordered = <<>>
    /\ again = <<>>

parse ==
    /\ parsed_rule = <<>>
    /\ parsed_rule' = <<parse_rule_line(line.line, line.group)>>
    /\ UNCHANGED <<line, rule_text, rulesets, rules, reordered, again>>
    /\ UNCHANGED <<pruned, subVars, groupVars, serverVars, networkVars, schemaVars, renderVars>>

render ==
    /\ parsed_rule # <<>>
    /\ parsed_rule[1] # <<>>
    /\ rule_text = <<>>
    /\ rule_text' = <<Rule_render(parsed_rule[1][1])>>
    /\ UNCHANGED <<line, parsed_rule, rulesets, rules, reordered, again>>
    /\ UNCHANGED <<pruned, subVars, groupVars, serverVars, networkVars, schemaVars, renderVars>>

ParseNext == parse \/ render

\* The rule lists the reorder is given: domain rules, IP rules in either
\* letter case and rules of neither family, two of each.
ReorderRules ==
    {Rule(ty, <<<<c>>>>, <<"G">>, FALSE) :
        ty \in {<<"DOMAIN-SUFFIX">>, <<"IP-CIDR">>, <<"ip-cidr">>, <<"RULE-SET">>},
        c \in {"x", "y"}}

\* Result<Vec<Rule>>
RulesOk(list) == [st |-> "ok", val |-> list]
RulesErr == [st |-> "err", val |-> <<>>]

InitReorder ==
    /\ rules \in {<<RulesOk(l)>> :
                    l \in UNION {[1..n -> ReorderRules] : n \in 0..MaxReorder}}
    /\ reordered = <<>>
    /\ again = <<>>
    /\ line = [line |-> <<>>, group |-> <<>>]
    /\ parsed_rule = <<>>
    /\ rule_text = <<>>
    /\ rulesets = <<>>

\* The reorder at the end of load_rules_from_pref.
reorder ==
    /\ rules # <<>>
    /\ rules[1].st = "ok"
    /\ reordered = <<>>
    /\ reordered' = <<reorder_rules_domain_before_ip(rules[1].val)>>
    /\ UNCHANGED <<line, parsed_rule, rule_text, rulesets, rules, again>>
    /\ UNCHANGED <<pruned, subVars, groupVars, serverVars, networkVars, schemaVars, renderVars>>

reorder_again ==
    /\ reordered # <<>>
    /\ again = <<>>
    /\ again' = <<reorder_rules_domain_before_ip(reordered[1])>>
    /\ UNCHANGED <<line, parsed_rule, rule_text, rulesets, rules, reordered>>
    /\ UNCHANGED <<pruned, subVars, groupVars, serverVars, networkVars, schemaVars, renderVars>>

ReorderNext == reorder \/ reorder_again

\* RuleSource::parse; a File is named by the path as written, whatever the
\* base directory.
RuleSource_parse(raw_entry) ==
    IF strip_prefix(raw_entry) # <<>>
    THEN [kind |-> "Inline", v |-> strip_prefix(raw_entry)[1]]
    ELSE IF raw_entry # <<>> /\ raw_entry[1] \in {"http://", "https://"}
    THEN [kind |-> "Url", v |-> raw_entry]
    ELSE [kind |-> "File", v |-> raw_entry]

\* str::lines, from character i on, with the line so far: a line ends at a
\* line feed, and no empty line follows the last line feed.
RECURSIVE lines_from(_, _, _)
lines_from(s, i, current) ==
    IF i > Len(s) THEN (IF current = <<>> THEN <<>> ELSE <<current>>)
    ELSE IF s[i] = "\n" THEN <<current>> \o lines_from(s, i + 1, <<>>)
    ELSE lines_from(s, i + 1, Append(current, s[i]))
lines(s) == lines_from(s, 1, <<>>)

\* The `for (idx, line) in text.lines()` loops: the rules of the lines.
RECURSIVE parse_lines(_, _)
parse_lines(ls, group) ==
    IF ls = <<>> THEN <<>>
    ELSE parse_rule_line(Head(ls), group) \o parse_lines(Tail(ls), group)

\* The files under the base directory: fs::read_to_string gives the text of
\* `f` and fails for every other path.
RulesFile == <<"FINAL", "\n", "DOMAIN", ",", "x", "\n", "#", "x", "\n">>
read_to_string(path) == IF path = <<"f">> THEN <<RulesFile>> ELSE <<>>

\* The `for group in final_groups` loop, and a variant that puts the FINAL
\* rules first.
push_final_first(list, final_groups) ==
    [i \in 1..Len(final_groups) |-> Rule(<<"FINAL">>, <<>>, final_groups[i], FALSE)]
        \o list

push_final(list, final_groups) ==
    list \o [i \in 1..Len(final_groups) |->
                Rule(<<"FINAL">>, <<>>, final_groups[i], FALSE)]

\* The entries in the order the two nested loops visit them, each with the
\* group of its ruleset.
RECURSIVE entries_of(_)
entries_of(sets) ==
    IF sets = <<>> THEN <<>>
    ELSE [i \in 1..Len(Head(sets).ruleset) |->
            [group |-> Head(sets).group, entry |-> Head(sets).ruleset[i]]]
         \o entries_of(Tail(sets))

\* The loops of load_rules_with_fetcher from entry i on, with the rules and
\* the final groups so far; fetched is what the fetcher returns.
RECURSIVE load_from(_, _, _, _, _)
load_from(visited, i, list, final_groups, fetched) ==
    IF i > Len(visited) THEN RulesOk(push_final(list, final_groups))
    ELSE LET group == visited[i].group
             ruleset_trimmed == trim(visited[i].entry)
             source == RuleSource_parse(ruleset_trimmed)
             read == IF source.kind = "File" THEN read_to_string(source.v) ELSE fetched
         IN  IF eq_ignore_ascii_case(ruleset_trimmed, <<"[", "]", "FINAL">>)
             THEN load_from(visited, i + 1, list, Append(final_groups, group), fetched)
             ELSE IF source.kind = "Inline"
             THEN load_from(visited, i + 1, list \o parse_rule_line(source.v, group),
                            final_groups, fetched)
             ELSE IF read = <<>> THEN RulesErr
             ELSE load_from(visited, i + 1, list \o parse_lines(lines(read[1]), group),
                            final_groups, fetched)

\* load_rules_with_fetcher; file is the Option of the rulesets the file at
\* rulesets_path holds, none when it cannot be read or is not such a table.
load_rules_with_fetcher(file, fetched) ==
    IF file = <<>> THEN RulesErr
    ELSE load_from(entries_of(file[1]), 1, <<>>, <<>>, fetched)

\* The rulesets files of a load: a ruleset of group G, or one of G and one of
\* H, with entries that ask for a FINAL rule, inline rules, a file that is
\* there, one that is not and a URL; and what the fetcher returns.
RulesetSpec(group, ruleset) == [group |-> group, ruleset |-> ruleset]
Entries ==
    {<<"[", "]", "FINAL">>, <<"[", "]", "final">>, <<" ", "[", "]", "FINAL">>,
     <<"[", "]", " ", "FINAL">>, <<"[", "]", "IP-CIDR", ",", "x">>,
     <<"f">>, <<"m">>, <<"https://", "u">>}
EntryLists == UNION {[1..n -> Entries] : n \in 0..MaxEntries}
RulesetsFiles ==
    {<<RulesetSpec(<<"G">>, r)>> : r \in EntryLists}
        \cup {<<RulesetSpec(<<"G">>, r1), RulesetSpec(<<"H">>, r2)>> :
                r1 \in {r \in EntryLists : Len(r) < MaxEntries},
                r2 \in {r \in EntryLists : Len(r) > 0 /\ Len(r) < MaxEntries}}
Fetched == {<<>>, <<<<"final", ",", "x", "\n", "DOMAIN", ",", "y">>>>}

InitLoad ==
    /\ rulesets \in {<<[rulesets |-> f, fetched |-> t]>> :
                        f \in {<<>>} \cup {<<r>> : r \in RulesetsFiles},
                        t \in Fetched}
    /\ rules = <<>>
    /\ reordered = <<>>
    /\ again = <<>>
    /\ line = [line |-> <<>>, group |-> <<>>]
    /\ parsed_rule = <<>>
    /\ rule_text = <<>>

\* One load_rules_with_fetcher pass.
load ==
    /\ rulesets # <<>>
    /\ rules = <<>>
    /\ rules' = <<load_rules_with_fetcher(rulesets[1].rulesets, rulesets[1].fetched)>>
    /\ UNCHANGED <<line, parsed_rule, rule_text, rulesets, reordered, again>>
    /\ UNCHANGED <<pruned, subVars, groupVars, serverVars, networkVars, schemaVars, renderVars>>

LoadNext == load \/ reorder

\* load_rules_with_fetcher on every rulesets file within the bounds, and the
\* reorder load_rules_from_pref ends with.
LoadInit ==
    /\ InitLoad /\ pruned = <<>> /\ InitNoSub /\ InitNoGroups /\ InitNoServer
    /\ InitNoRender /\ InitNoNetwork /\ InitTasks /\ InitHist /\ InitSchema
SpecLoad == LoadInit /\ [][LoadNext]_vars

\* ------------------------------------------------------------ group emitters
\* groups::ProxyGroup with all its fields.
ProxyGroupOf(name, group_type, members, url, interval) ==
    [name |-> name, group_type |-> group_type, proxies |-> members,
     url |-> url, interval |-> interval]

\* normalize_proxy_name of export/clash.rs, and a variant without the trim.
normalize_proxy_name_no_trim(name) ==
    IF strip_prefix(name) # <<>> THEN strip_prefix(name)[1] ELSE name

normalize_proxy_name(name) ==
    IF strip_prefix(name) # <<>> THEN trim(strip_prefix(name)[1]) ELSE name

\* export::clash::render_proxy_group: the map it builds, a key that is not
\* inserted being none; and a variant that leaves an empty list empty.
render_proxy_group_empty(g) ==
    [name |-> g.name, type |-> g.group_type,
     proxies |-> [i \in 1..Len(g.proxies) |-> normalize_proxy_name(g.proxies[i])],
     url |-> g.url, interval |-> g.interval]

render_proxy_group(g) ==
    LET normalized == [i \in 1..Len(g.proxies) |-> normalize_proxy_name(g.proxies[i])]
    IN  [name |-> g.name, type |-> g.group_type,
         proxies |-> IF normalized = <<>> THEN <<<<"D", "I", "R", "E", "C", "T">>>> ELSE normalized,
         url |-> g.url, interval |-> g.interval]

\* The `for item in &group.proxies` loop of render_surge_group_line.
RECURSIVE write_members(_)
write_members(members) ==
    IF members = <<>> THEN <<>>
    ELSE <<",">>
         \o (IF strip_prefix(Head(members)) # <<>>
             THEN strip_prefix(Head(members))[1] ELSE Head(members))
         \o write_members(Tail(members))

\* server::surge::render_surge_group_line.
render_surge_group_line(g) ==
    LET mapped == IF g.group_type = <<"url-test">> THEN <<"smart">> ELSE g.group_type
        group_type == IF g.proxies = <<>> THEN <<"select">> ELSE mapped
    IN  g.name \o <<" ", "=", " ">> \o group_type
            \o (IF g.proxies = <<>> THEN <<",">> \o <<"D", "I", "R", "E", "C", "T">> ELSE write_members(g.proxies))

\* The groups the emitters are given: of three types, with no member, with
\* proxies and with back-references, one of them written with a blank.
GroupTypes == {<<"select">>, <<"url-test">>, <<"fallback">>}
Members ==
    {<<"a">>, <<"[", "]", "H">>, <<"[", "]", " ", "H">>, <<"[", "]", "D", "I", "R", "E", "C", "T">>}
EmitGroups ==
    {ProxyGroupOf(<<"G">>, ty, m, url, interval) :
        ty \in GroupTypes,
        m \in UNION {[1..n -> Members] : n \in 0..MaxMembers},
        url \in {<<>>, <<<<"u">>>>},
        interval \in {<<>>, <<300>>}}

InitEmit ==
    /\ proxy_group \in {<<g>> : g \in EmitGroups}
    /\ emitted = [clash |-> <<>>, surge |-> <<>>, rule |-> <<>>, groups |-> <<>>]

emit_clash ==
    /\ proxy_group # <<>>
    /\ emitted.clash = <<>>
    /\ emitted' = [emitted EXCEPT !.clash = <<render_proxy_group(proxy_group[1])>>]
    /\ UNCHANGED <<proxy_group, requestVars, runtimeVars, pruned, subVars, groupVars, ruleVars, networkVars,
                   schemaVars, renderVars>>

emit_surge ==
    /\ proxy_group # <<>>
    /\ emitted.surge = <<>>
    /\ emitted' = [emitted EXCEPT !.surge = <<render_surge_group_line(proxy_group[1])>>]
    /\ UNCHANGED <<proxy_group, requestVars, runtimeVars, pruned, subVars, groupVars, ruleVars, networkVars,
                   schemaVars, renderVars>>

EmitNext == emit_clash \/ emit_surge

\* The two group emitters on every group within the bounds.
EmitInit ==
    /\ InitEmit /\ InitNoRequest /\ InitNoApi /\ pruned = <<>> /\ InitNoSub /\ InitNoGroups /\ InitNoRules
    /\ InitNoRender /\ InitNoNetwork /\ InitTasks /\ InitHist /\ InitSchema
SpecEmit == EmitInit /\ [][EmitNext]_vars

\* ------------------------------------------------------------------- /sub
\* Pref, with the fields of [common] that decide the profiles of a request.
Pref(api_access_token, enable_insert, prepend_insert_url, default_url, insert_url) ==
    [common |-> [api_access_token |-> api_access_token, enable_insert |-> enable_insert,
                 prepend_insert_url |-> prepend_insert_url,
                 default_url |-> default_url, insert_url |-> insert_url]]

LoadOk(list) == [st |-> "ok", val |-> list]
LoadErr(code) == [st |-> "err", val |-> <<>>, code |-> code]

\* gather_profile_paths, the paths being relative to one base_dir, and a
\* variant that takes the inserts whatever include_insert is.
gather_profile_paths_any_token(pref, include_insert) ==
    LET defaults == pref.common.default_url
        inserts == IF pref.common.enable_insert THEN pref.common.insert_url ELSE <<>>
    IN  push_all_unique(<<>>, IF pref.common.prepend_insert_url
                              THEN inserts \o defaults ELSE defaults \o inserts)

gather_profile_paths(pref, include_insert) ==
    LET defaults == pref.common.default_url
        inserts == IF include_insert /\ pref.common.enable_insert
                   THEN pref.common.insert_url ELSE <<>>
    IN  push_all_unique(<<>>, IF pref.common.prepend_insert_url
                              THEN inserts \o defaults ELSE defaults \o inserts)

gather_insert_paths(pref) == push_all_unique(<<>>, pref.common.insert_url)

\* proxy::load_from_paths on the files `files`: Option of the proxies; the
\* first profile that does not load fails it.
RECURSIVE load_from_paths(_, _)
load_from_paths(files, paths) ==
    IF paths = <<>> THEN <<<<>>>>
    ELSE LET rest == load_from_paths(files, Tail(paths))
         IN  IF files[Head(paths)] = <<>> \/ rest = <<>> THEN <<>>
             ELSE <<files[Head(paths)][1] \o rest[1]>>

\* The proxies of the subscription that the url of a request names.
Subscription == <<"f">>

\* load_proxies_for_request
load_proxies_for_request(pref, files, url, include_insert) ==
    LET loaded == IF url # <<>> THEN <<Subscription>>
                  ELSE load_from_paths(files, gather_profile_paths(pref, include_insert))
        insert_paths == gather_insert_paths(pref)
        insert_proxies == load_from_paths(files, insert_paths)
    IN  IF loaded = <<>> THEN LoadErr(500)
        ELSE IF url # <<>> /\ include_insert /\ pref.common.enable_insert
                /\ insert_paths # <<>>
        THEN IF insert_proxies = <<>> THEN LoadErr(500)
             ELSE IF pref.common.prepend_insert_url
             THEN LoadOk(insert_proxies[1] \o loaded[1])
             ELSE LoadOk(loaded[1] \o insert_proxies[1])
        ELSE LoadOk(loaded[1])

\* `params.token.as_ref().zip(..api_access_token.as_ref()).map(..).unwrap_or(false)`
include_insert_of(token, pref) ==
    IF token # <<>> /\ pref.common.api_access_token # <<>>
    THEN token[1] = pref.common.api_access_token[1]
    ELSE FALSE

\* The profile paths, the files a server may find at them (a profile that
\* does not load, or one proxy named after its path) and the tokens.
ProfilePaths == {"p", "q", "r"}
ProfileFiles == [ProfilePaths -> {<<>>} \cup {<<<<x>>>> : x \in ProfilePaths}]
Tokens == {<<>>, <<"s">>, <<"x">>}
Prefs ==
    {Pref(tk, en, pre, d, i) :
        tk \in {<<>>, <<"s">>}, en \in BOOLEAN, pre \in BOOLEAN,
        d \in {<<"p">>, <<"p", "q">>},
        i \in {<<>>, <<"q">>, <<"r">>, <<"r", "q">>}}

\* Two requests for one url, or for none, to servers of one pref.
InitRequest ==
    /\ state_pref \in Prefs
    /\ params \in {[url |-> u, token |-> tk] :
                     u \in {<<>>, <<"u">>}, tk \in [1..2 -> Tokens]}
    /\ profiles \in [1..2 -> {fs \in ProfileFiles : \A x \in ProfilePaths : fs[x] \in {<<>>, <<<<x>>>>}}]
    /\ response = <<<<>>, <<>>>>

\* handle_sub up to the render, for a target that state.targets holds.
handle_sub(n) ==
    /\ response[n] = <<>>
    /\ response' = [response EXCEPT ![n] =
            <<load_proxies_for_request(state_pref, profiles[n], params.url,
                                       include_insert_of(params.token[n], state_pref))>>]
    /\ UNCHANGED <<state_pref, params, profiles>>
    /\ UNCHANGED <<proxy_group, emitted, runtimeVars, pruned, subVars, groupVars, ruleVars, networkVars,
                   schemaVars, renderVars>>

RequestNext == \E n \in 1..2 : handle_sub(n)

\* Two /sub requests, for every pref, every token and all profile files.
RequestInit ==
    /\ InitRequest /\ InitNoApi /\ proxy_group = <<>>
    /\ emitted = [clash |-> <<>>, surge |-> <<>>, rule |-> <<>>, groups |-> <<>>]
    /\ pruned = <<>> /\ InitNoSub /\ InitNoGroups /\ InitNoRules
    /\ InitNoRender /\ InitNoNetwork /\ InitTasks /\ InitHist /\ InitSchema
SpecRequest == RequestInit /\ [][RequestNext]_vars

\* ---------------------------------------------------------- the admin API
\* RuntimeState: three handles; `of` is the build a handle comes from.
RuntimeState(pref_handle, registry, network) ==
    [pref |-> pref_handle, registry |-> registry, network |-> network]

\* build_runtime: the pref file is read and parsed, the registry and the
\* network are made anew; `n` numbers the build.
build_runtime(file, n) ==
    RuntimeState([of |-> n, common |-> file.common], [of |-> n], [of |-> n])

\* `runtime.pref.common.api_access_token.as_deref().unwrap_or("")`
expected_token(snapshot) ==
    IF snapshot.pref.common.api_access_token = <<>> THEN ""
    ELSE snapshot.pref.common.api_access_token[1]

\* The tests of api_auth and of control_set_api_token on a snapshot, for a
\* request of the same origin: the status they return, 0 when they pass; and
\* a variant that lets every request pass.
check_token_open(snapshot, provided) == 0

check_token(snapshot, provided) ==
    IF expected_token(snapshot) = "" THEN 0
    ELSE IF provided # expected_token(snapshot) THEN 403
    ELSE 0

ApiTasks == {1, 2}
ApiTokens == {"", "s", "t"}
ApiIdle == [op |-> "none", pc |-> "idle", provided |-> "", token |-> "",
            file_text |-> <<>>, built |-> <<>>, uses |-> {}, status |-> 0]
Use(part, handle) == [part |-> part, of |-> handle.of]
ApiDone(r, status) == [r EXCEPT !.pc = "done", !.status = status]

\* What no step of an API request changes.
ApiFrame ==
    UNCHANGED <<proxy_group, emitted, requestVars, pruned, subVars, groupVars, ruleVars,
                networkVars, schemaVars, renderVars>>

\* A server started on a pref file with or without a token.
InitApi ==
    /\ pref_file \in {[common |-> [api_access_token |-> tk]] : tk \in {<<>>, <<"s">>}}
    /\ runtime = build_runtime(pref_file, 0)
    /\ api = [t \in ApiTasks |-> ApiIdle]
    /\ builds = 0
    /\ requests = 0

\* A request arrives: GET /cache, POST /control/reload or POST /control/token.
api_request(t) ==
    /\ api[t].pc \in {"idle", "done"}
    /\ requests < MaxRequests
    /\ requests' = requests + 1
    /\ \E op \in {"cache", "reload", "token"}, provided \in ApiTokens, token \in ApiTokens :
        /\ op # "token" => token = ""
        /\ api' = [api EXCEPT ![t] =
                [ApiIdle EXCEPT !.op = op, !.pc = "auth", !.provided = provided,
                                !.token = token]]
    /\ UNCHANGED <<pref_file, runtime, builds>>
    /\ ApiFrame

\* api_auth, up to `next.run(req)`.
api_auth(t) ==
    /\ api[t].pc = "auth"
    /\ LET snapshot == runtime
           status == check_token(snapshot, api[t].provided)
           r == [api[t] EXCEPT !.uses = @ \cup {Use("pref", snapshot.pref)}]
       IN  api' = [api EXCEPT ![t] =
                IF status # 0 THEN ApiDone(r, status) ELSE [r EXCEPT !.pc = "handler"]]
    /\ UNCHANGED <<pref_file, runtime, builds, requests>>
    /\ ApiFrame

\* get_cache
get_cache(t) ==
    /\ api[t].pc = "handler"
    /\ api[t].op = "cache"
    /\ LET snapshot == runtime
       IN  api' = [api EXCEPT ![t] =
                ApiDone([@ EXCEPT !.uses = @ \cup {Use("network", snapshot.network)}], 200)]
    /\ UNCHANGED <<pref_file, runtime, builds, requests>>
    /\ ApiFrame

\* control_reload, up to `state.runtime.write().await`.
control_reload(t) ==
    /\ api[t].pc = "handler"
    /\ api[t].op = "reload"
    /\ builds' = builds + 1
    /\ api' = [api EXCEPT ![t] = [@ EXCEPT !.built = <<build_runtime(pref_file, builds')>>,
                                            !.pc = "install"]]
    /\ UNCHANGED <<pref_file, runtime, requests>>
    /\ ApiFrame

\* control_set_api_token, up to the read of update_pref_api_token.
control_set_api_token(t) ==
    /\ api[t].pc = "handler"
    /\ api[t].op = "token"
    /\ LET snapshot == runtime
           status == check_token(snapshot, api[t].provided)
           r == [api[t] EXCEPT !.uses = @ \cup {Use("pref", snapshot.pref)}]
       IN  api' = [api EXCEPT ![t] =
                IF status # 0 THEN ApiDone(r, status)
                ELSE IF api[t].token = "" THEN ApiDone(r, 400)
                ELSE [r EXCEPT !.pc = "read"]]
    /\ UNCHANGED <<pref_file, runtime, builds, requests>>
    /\ ApiFrame

\* update_pref_api_token: `fs::read_to_string(path).await`
update_read(t) ==
    /\ api[t].pc = "read"
    /\ api' = [api EXCEPT ![t] = [@ EXCEPT !.file_text = <<pref_file>>, !.pc = "write"]]
    /\ UNCHANGED <<pref_file, runtime, builds, requests>>
    /\ ApiFrame

\* update_pref_api_token: `fs::write(path, output).await`
update_write(t) ==
    /\ api[t].pc = "write"
    /\ pref_file' = [api[t].file_text[1] EXCEPT
                        !.common.api_access_token = <<api[t].token>>]
    /\ api' = [api EXCEPT ![t] = [@ EXCEPT !.pc = "build"]]
    /\ UNCHANGED <<runtime, builds, requests>>
    /\ ApiFrame

\* control_set_api_token: build_runtime, up to `state.runtime.write().await`.
token_build(t) ==
    /\ api[t].pc = "build"
    /\ builds' = builds + 1
    /\ api' = [api EXCEPT ![t] = [@ EXCEPT !.built = <<build_runtime(pref_file, builds')>>,
                                            !.pc = "install"]]
    /\ UNCHANGED <<pref_file, runtime, requests>>
    /\ ApiFrame

\* `*guard = runtime` under the write lock, and the response.
swap_runtime(t) ==
    /\ api[t].pc = "install"
    /\ runtime' = api[t].built[1]
    /\ api' = [api EXCEPT ![t] = ApiDone(@, 200)]
    /\ UNCHANGED <<pref_file, builds, requests>>
    /\ ApiFrame

ApiNext ==
    \/ \E t \in ApiTasks : api_request(t)
    \/ \E t \in ApiTasks : api_auth(t)
    \/ \E t \in ApiTasks : get_cache(t)
    \/ \E t \in ApiTasks : control_reload(t)
    \/ \E t \in ApiTasks : control_set_api_token(t)
    \/ \E t \in ApiTasks : update_read(t)
    \/ \E t \in ApiTasks : update_write(t)
    \/ \E t \in ApiTasks : token_build(t)
    \/ \E t \in ApiTasks : swap_runtime(t)

\* API requests of two tasks in every interleaving.
ApiInit ==
    /\ InitApi /\ InitNoRequest /\ proxy_group = <<>>
    /\ emitted = [clash |-> <<>>, surge |-> <<>>, rule |-> <<>>, groups |-> <<>>]
    /\ pruned = <<>> /\ InitNoSub /\ InitNoGroups /\ InitNoRules
    /\ InitNoRender /\ InitNoNetwork /\ InitTasks /\ InitHist /\ InitSchema
SpecApi == ApiInit /\ [][ApiNext]_vars

\* ------------------------------------------- proxy groups of a document
\* The group specs of a document: a group G with rules that name a proxy, match
\* every proxy or refer to the group H or to DIRECT, and an empty group H.
DocRules ==
    {<<"a">>, <<".">>, <<"[", "]", "H">>, <<"[", "]", " ", "H">>,
     <<"[", "]", "D", "I", "R", "E", "C", "T">>}
DocSpecs ==
    {<<GroupSpec(NameG, rule), GroupSpec(NameH, <<>>)>> :
        rule \in UNION {[1..n -> DocRules] : n \in 0..MaxRules}}
DocProxies ==
    {Proxy(name, protocol, EmptyMap) :
        name \in {<<"a">>, <<"b">>}, protocol \in {"shadowsocks", "trojan", "vmess"}}

\* Before render_clash or render_surge runs, with the group specs that
\* load_group_specs_from_pref will return.
InitDoc ==
    /\ args \in UNION {[1..n -> DocProxies] : n \in 0..MaxProxies}
    /\ target \in Targets
    /\ sort = FALSE
    /\ proxies = args
    /\ stage = "start"
    /\ doc = <<>>
    /\ failure = <<>>
    /\ converted = <<>>
    /\ pruned = <<>>
    /\ specs \in DocSpecs
    /\ groups = <<>>
    /\ rebuilt = <<>>

\* `groups::build_groups(&group_specs, &proxies)` of render_clash and of
\* render_surge, on the list that retain and sort left.
build_proxy_groups ==
    /\ stage = "convert"
    /\ build

\* The map of the groups through the emitter of the target; the specs declare
\* the type select, no url and no interval, which build_group copies.
emit_groups ==
    /\ groups # <<>>
    /\ groups[1].st = "ok"
    /\ emitted.groups = <<>>
    /\ LET built == [i \in 1..Len(groups[1].val) |->
                        ProxyGroupOf(groups[1].val[i].name, <<"select">>,
                                     groups[1].val[i].proxies, <<>>, <<>>)]
       IN  emitted' = [emitted EXCEPT !.groups =
                <<[clash |-> IF target = "clash"
                             THEN [i \in 1..Len(built) |-> render_proxy_group(built[i])]
                             ELSE <<>>,
                   surge |-> IF target = "surge"
                             THEN [i \in 1..Len(built) |-> render_surge_group_line(built[i])]
                             ELSE <<>>]>>]
    /\ UNCHANGED <<proxy_group, requestVars, runtimeVars, pruned, subVars, groupVars, ruleVars, networkVars,
                   schemaVars, renderVars>>

DocNext ==
    \/ retain_implemented
    \/ sort_proxies
    \/ build_proxy_groups
    \/ emit_groups

\* The proxies and the groups of a document, for every list of proxies and
\* every group spec within the bounds.
DocInit ==
    /\ InitDoc /\ InitNoRules /\ InitNoServer
    /\ InitNoRender /\ InitNoNetwork /\ InitTasks /\ InitHist /\ InitSchema
SpecDoc == DocInit /\ [][DocNext]_vars

\* --------------------------------------------------- rules of a surge document
\* The closure render_surge maps over the rules, and a variant that leaves
\* every line as Rule::render wrote it.
surge_rule_line_as_rendered(rule) == Rule_render(rule)

surge_rule_line(rule) ==
    LET l == Rule_render(rule)
    IN  IF l = <<"SRC-IP-CIDR">> THEN <<"IP-CIDR">>
        ELSE IF Len(l) >= 2 /\ l[1] = "SRC-IP-CIDR" /\ l[2] = ","
        THEN <<"IP-CIDR", ",">> \o SubSeq(l, 3, Len(l)) \o <<",", "no-resolve">>
        ELSE l

\* The rule lines of a surge document: a source address rule in either
\* letter case or an address rule, then any characters.
SurgeLineChars == {",", " ", "x", "no-resolve"}
SurgeLineStrings ==
    UNION {{<<c>> \o l : c \in {"SRC-IP-CIDR", "src-ip-cidr", "IP-CIDR"},
                          l \in [1..n -> SurgeLineChars]} :
            n \in 0..(MaxLine - 1)}

InitSurgeRules ==
    /\ line \in {[line |-> l, group |-> g] : l \in SurgeLineStrings, g \in {<<"G">>, <<>>}}
    /\ parsed_rule = <<>>
    /\ rule_text = <<>>
    /\ rulesets = <<>>
    /\ rules = <<>>
    /\ reordered = <<>>
    /\ again = <<>>

emit_surge_rule ==
    /\ parsed_rule # <<>>
    /\ parsed_rule[1] # <<>>
    /\ emitted.rule = <<>>
    /\ emitted' = [emitted EXCEPT !.rule = <<surge_rule_line(parsed_rule[1][1])>>]
    /\ UNCHANGED <<proxy_group, requestVars, runtimeVars, pruned, subVars, groupVars, ruleVars, networkVars,
                   schemaVars, renderVars>>

SurgeRulesNext == parse \/ render \/ emit_surge_rule

\* parse_rule_line, Rule::render and the surge rewrite on every line within
\* the bounds.
SurgeRulesInit ==
    /\ InitSurgeRules /\ pruned = <<>> /\ InitNoSub /\ InitNoGroups /\ InitNoServer
    /\ InitNoRender /\ InitNoNetwork /\ InitTasks /\ InitHist /\ InitSchema
SpecSurgeRules == SurgeRulesInit /\ [][SurgeRulesNext]_vars

\* parse_rule_line and Rule::render on every line within the bounds.
ParseInit ==
    /\ InitParse /\ pruned = <<>> /\ InitNoSub /\ InitNoGroups /\ InitNoServer
    /\ InitNoRender /\ InitNoNetwork /\ InitTasks /\ InitHist /\ InitSchema
SpecParse == ParseInit /\ [][ParseNext]_vars

\* reorder_rules_domain_before_ip on every rule list within the bounds, and
\* on its own output.
ReorderInit ==
    /\ InitReorder /\ pruned = <<>> /\ InitNoSub /\ InitNoGroups /\ InitNoServer
    /\ InitNoRender /\ InitNoNetwork /\ InitTasks /\ InitHist /\ InitSchema
SpecReorder == ReorderInit /\ [][ReorderNext]_vars

\* ------------------------------------------------------------------ claims
ReadReturned(t) == pc[t] = "ret" /\ call[t].op = "read"
Fresh(url) == good[url] # <<>> /\ now < good[url][1].expires_at

\* C1: in a sequential history, a read(url) made strictly before expires_at of
\* the last successful store(url, text), with no later store for the url and no
\* change to the file on disk, returns Some(text).
C1_RoundTrip ==
    \A t \in Procs :
        ReadReturned(t) /\ Fresh(call[t].url)
            => ret[t] = RetOk(<<good[call[t].url][1].text>>)

\* A read returned Some(text) after the clock moved on from the store.
C1_Witness ==
    \E t \in Procs :
        /\ ReadReturned(t) /\ Fresh(call[t].url)
        /\ now > good[call[t].url][1].expires_at - ttl
        /\ ret[t] = RetOk(<<good[call[t].url][1].text>>)

\* C2: a read that finds an entry it cannot serve (expired, file missing, hash
\* mismatch, not UTF-8) returns Ok(None), and then the index holds no entry for
\* the url and the cache file is unlinked; a later read without a new store
\* returns None too.
C2_EvictOnMiss ==
    \A t \in Procs :
        ReadReturned(t) /\ (obs[t].unservable \/ obs[t].dead)
            => /\ ret[t] = RetOk(<<>>)
               /\ entries[call[t].url] = <<>>
               /\ dirent[cache_path_for_url(call[t].url)] = NoFile

\* The later read, after a read that evicted, has returned.
C2_Witness ==
    \E t \in Procs :
        /\ ReadReturned(t) /\ obs[t].dead
        /\ ret[t] = RetOk(<<>>)

\* C3: under every interleaving of concurrent stores and of aborts of a store,
\* the file at <sha256(url)>.cache is absent or holds the complete text of one
\* store call for that url.
CacheFileWhole(url) ==
    LET ino == dirent[cache_path_for_url(url)]
    IN  ino = NoFile \/ idata[ino] \in stored[url]

C3_NoPartialCacheFile == \A u \in Urls : CacheFileWhole(u)

\* ---- get_or_fetch_with: what a call did, read off the history of the call
FetchReturned(t) == pc[t] = "ret" /\ call[t].op = "fetch"
InFetch(t) == pc[t] # "idle" /\ call[t].op = "fetch"
CacheUntouched(t) == obs[t].before = <<entries, dirent, idata>>
Gets(t) == obs[t].gets
LastGet(t) == Gets(t)[Len(Gets(t))]
Succeeded(t) == Gets(t) # <<>> /\ LastGet(t).outcome = "ok"
AllFailed(t) ==
    /\ call[t].user_agents # <<>>
    /\ Len(Gets(t)) = Len(call[t].user_agents)
    /\ \A k \in 1..Len(Gets(t)) : Gets(t)[k].outcome # "ok"
\* The index and the file of the call's url are those store(url, text) leaves.
HoldsText(t, text) ==
    LET path == cache_path_for_url(call[t].url)
    IN  /\ entries[call[t].url] = <<CacheEntry(now + ttl, sha256_hex(text), path)>>
        /\ dirent[path] # NoFile
        /\ idata[dirent[path]] = text
\* No entry was inserted: each url's entry is the one before the call, or
\* the call's url lost the entry the cache read could not serve.
NothingStored(t) ==
    \A u \in Urls :
        entries[u] = IF u = call[t].url /\ obs[t].unservable /\ obs[t].reads > 0
                     THEN <<>>
                     ELSE obs[t].before[1][u]

\* The host of the url, lower-cased, is an entry of the configured list.
ListedLiterally(url) ==
    url.host # NoHost /\ InList(allowed_domain, to_ascii_lowercase(url.host[1]))
\* The same with the entries of the list lower-cased too.
ListedIgnoringCase(url) ==
    /\ url.host # NoHost
    /\ \E k \in 1..Len(allowed_domain) :
            to_ascii_lowercase(allowed_domain[k]) = to_ascii_lowercase(url.host[1])

Denied(t) ==
    /\ pc[t] = "ret"
    /\ ret[t] = RetErr(IF call[t].url.host = NoHost THEN 400 ELSE 403)
    /\ obs[t].reads = 0
    /\ Gets(t) = <<>>
    /\ CacheUntouched(t)

\* C4, as claimed: a url whose lower-cased host is not literally in the
\* configured allowed_domain list is read from no cache and fetched by no GET;
\* the call returns 403 (400 without a host) and touches nothing.
C4_DenyUnlistedLiteral ==
    \A t \in Procs :
        InFetch(t) /\ pc[t] # "gf_validate" /\ ~ListedLiterally(call[t].url) => Denied(t)

\* C4, amended: the same for a url whose lower-cased host equals no entry of the
\* configured list once the entries are lower-cased as well.
C4_DenyUnlisted ==
    \A t \in Procs :
        InFetch(t) /\ pc[t] # "gf_validate" /\ ~ListedIgnoringCase(call[t].url) => Denied(t)

\* A listed url was fetched and stored before; a call for an unlisted host
\* returned 403.
C4_Witness ==
    \E t \in Procs :
        /\ FetchReturned(t) /\ ret[t].code = 403
        /\ allowed_domain # <<>>
        /\ \E u \in Urls : entries[u] # <<>>

\* C5: the GETs of a call go through the user agents in list order, one each;
\* a failure (network error, status, parse) moves on to the next user agent and
\* the first 2xx body that parses ends the loop; that body is in the cache
\* when the cache is enabled, and otherwise nothing was stored.
C5_AgentsInOrder ==
    \A t \in Procs :
        InFetch(t) =>
            /\ Len(Gets(t)) <= Len(call[t].user_agents)
            /\ \A k \in 1..Len(Gets(t)) : Gets(t)[k].ua = call[t].user_agents[k]
            /\ \A k \in 1..(Len(Gets(t)) - 1) : Gets(t)[k].outcome # "ok"
            /\ pc[t] = "ret" /\ Gets(t) # <<>> =>
                    IF Succeeded(t)
                    THEN /\ ret[t] = RetOk(<<ParseValue(LastGet(t).text)>>)
                         /\ IF cache_enabled
                            THEN HoldsText(t, LastGet(t).text)
                            ELSE NothingStored(t)
                    ELSE /\ Len(Gets(t)) = Len(call[t].user_agents)
                         /\ NothingStored(t)

\* The first user agent got a body that did not parse, the second one that did,
\* and the second body was stored.
C5_Witness ==
    \E t \in Procs :
        /\ FetchReturned(t) /\ Len(Gets(t)) = 2
        /\ Gets(t)[1].outcome = "parse" /\ Gets(t)[2].outcome = "ok"
        /\ cache_enabled /\ HoldsText(t, Gets(t)[2].text)

\* C6: with the cache enabled and no_cache false, a call whose cache read
\* returned a text returns parse of that text and issues no GET; with no_cache
\* the cache is not read, and a parsed body is stored if the cache is enabled.
C6_CacheHit ==
    \A t \in Procs :
        FetchReturned(t) =>
            /\ obs[t].hit # <<>> =>
                    /\ ret[t] = ParseResult(call[t].parse, obs[t].hit[1])
                    /\ Gets(t) = <<>>
            /\ call[t].no_cache =>
                    /\ obs[t].reads = 0
                    /\ Succeeded(t) /\ cache_enabled => HoldsText(t, LastGet(t).text)

\* A call was served from the cache.
C6_Witness ==
    \E t \in Procs :
        /\ FetchReturned(t) /\ obs[t].hit # <<>>
        /\ ret[t].st = "ok" /\ Gets(t) = <<>>

\* The diagnostic of an attempt, as get_or_fetch_with words it.
DiagnosticOf(get) ==
    IF get.outcome = "parse"
    THEN Diagnostic("parse", get.ua, "parse")
    ELSE Diagnostic("request", get.ua, get.outcome)

NoAgents(t) ==
    FetchReturned(t) /\ validate_url(call[t].url) = 0 /\ obs[t].hit = <<>>
        /\ call[t].user_agents = <<>>
            => ret[t] = RetErr(500) /\ Gets(t) = <<>>

\* C7, as claimed: without user agents and without a cache hit the call returns
\* a 500 and issues no GET; when every user agent fails it returns 502 with the
\* diagnostic of the last attempt and the cache index is unchanged.
C7_ExhaustedIndexUnchanged ==
    \A t \in Procs :
        /\ NoAgents(t)
        /\ FetchReturned(t) /\ AllFailed(t) =>
                /\ ret[t] = RetErrMsg(502, <<DiagnosticOf(LastGet(t))>>)
                /\ entries = obs[t].before[1]

\* C7, amended: ... and no entry is inserted into the cache index: it is
\* unchanged but for the entry of the url itself, which the cache read has
\* removed when it could not serve it (it was expired).
C7_Exhausted ==
    \A t \in Procs :
        /\ NoAgents(t)
        /\ FetchReturned(t) /\ AllFailed(t) =>
                /\ ret[t] = RetErrMsg(502, <<DiagnosticOf(LastGet(t))>>)
                /\ NothingStored(t)

\* Two user agents failed in different ways and the call returned 502.
C7_Witness ==
    \E t \in Procs :
        /\ FetchReturned(t) /\ AllFailed(t) /\ Len(Gets(t)) = 2
        /\ Gets(t)[1].outcome # Gets(t)[2].outcome
        /\ ret[t].code = 502

\* ---- resolve_protocols: the includes graph of the raw schemas
Loaded == {n \in ProtocolNames : raw[n] # <<>>}
Includes(n) == IF raw[n] = <<>> THEN {} ELSE {raw[n][1].includes[i] : i \in 1..Len(raw[n][1].includes)}
Successors(S) == UNION {Includes(n) : n \in S}
\* What n reaches through one include or more.
Descendants(n) ==
    LET s1 == Successors({n})
        s2 == s1 \cup Successors(s1)
        s3 == s2 \cup Successors(s2)
    IN  s3 \cup Successors(s3)
HasCycle == \E n \in Loaded : n \in Descendants(n)
NamesMissing == \E n \in Loaded : \E m \in Includes(n) : m \notin Loaded
Diamond ==
    \E child, p, q, g \in Loaded :
        /\ Cardinality({child, p, q, g}) = 4
        /\ {p, q} \subseteq Includes(child)
        /\ g \in Includes(p) /\ g \in Includes(q)
Returned == result # "running"
RegistryComplete ==
    \A n \in ProtocolNames :
        IF n \in Loaded
        THEN resolved[n] # <<>> /\ resolved[n][1].includes = <<>>
        ELSE resolved[n] = <<>>

\* C8, as claimed: on every includes graph without a cycle whose includes are
\* all loaded, resolve_protocols succeeds, and every schema in the resolved
\* registry has an empty includes list.
C8_AcyclicSucceeds ==
    Returned /\ ~HasCycle /\ ~NamesMissing => result = "ok" /\ RegistryComplete

\* C8, amended: resolve_protocols returns; it returns an error when the
\* includes graph has a cycle or names a protocol that is not loaded; on a
\* graph without a cycle it reports no cycle, on a graph whose includes are all
\* loaded no missing protocol, so that on an acyclic, fully loaded graph it
\* fails only when template validation fails; and when it succeeds every loaded
\* protocol is in the registry with an empty includes list.
C8_Resolves ==
    /\ <>Returned
    /\ [](Returned /\ (HasCycle \/ NamesMissing) => result # "ok")
    /\ [](~HasCycle => result # "cycle")
    /\ [](~NamesMissing => result # "missing")
    /\ [](result = "ok" => RegistryComplete)

\* A diamond was resolved.
C8_Witness == Diamond /\ result = "ok" /\ RegistryComplete

\* ---- absorb: where an entry of a resolved schema comes from
\* The fields of a schema, and the template keys of its target t.
FieldsOf(schema) == schema.fields
TemplateOf(schema, t) ==
    IF t \in DOMAIN schema.targets THEN schema.targets[t].template ELSE EmptyMap
ResolvedParents(child) ==
    [i \in 1..Len(child.includes) |-> resolved[child.includes[i]][1]]
\* own is the child's map and theirs the maps of the parents in includes
\* order: the child's entry when it declares k, else that of the first parent
\* that declares k.
Inherited(map, own, theirs) ==
    /\ DOMAIN map = DOMAIN own \cup UNION {DOMAIN theirs[i] : i \in 1..Len(theirs)}
    /\ \A k \in DOMAIN map :
        IF k \in DOMAIN own THEN map[k] = own[k]
        ELSE LET first == CHOOSE i \in 1..Len(theirs) :
                            /\ k \in DOMAIN theirs[i]
                            /\ \A j \in 1..(i - 1) : k \notin DOMAIN theirs[j]
             IN  map[k] = theirs[first][k]
TargetNames == {"t", "u"}

\* C9: in the resolved schema of a protocol, every field and every template
\* key of every target is the protocol's own entry when it declares one, and
\* otherwise the entry of the first parent in includes order, taken from the
\* parent's resolved schema, that declares it.
C9_ChildWins ==
    \A c \in ProtocolNames :
        resolved[c] # <<>> =>
            LET child == raw[c][1]
                parents == ResolvedParents(child)
            IN  /\ \A i \in 1..Len(child.includes) : resolved[child.includes[i]] # <<>>
                /\ Inherited(FieldsOf(resolved[c][1]), FieldsOf(child),
                             [i \in 1..Len(parents) |-> FieldsOf(parents[i])])
                /\ \A t \in TargetNames :
                        Inherited(TemplateOf(resolved[c][1], t), TemplateOf(child, t),
                                  [i \in 1..Len(parents) |-> TemplateOf(parents[i], t)])

\* A protocol with two parents was resolved: both parents declare a field it
\* does not declare, with different types, and it declares a template key
\* that a parent declares differently.
C9_Witness ==
    \E c \in ProtocolNames :
        /\ resolved[c] # <<>>
        /\ Len(raw[c][1].includes) = 2
        /\ LET child == raw[c][1]
               parents == ResolvedParents(child)
           IN  /\ \E f \in FieldNames :
                    /\ f \notin DOMAIN child.fields
                    /\ f \in DOMAIN parents[1].fields /\ f \in DOMAIN parents[2].fields
                    /\ parents[1].fields[f] # parents[2].fields[f]
               /\ \E t \in TargetNames, i \in 1..2 :
                    \E k \in DOMAIN TemplateOf(child, t) \cap DOMAIN TemplateOf(parents[i], t) :
                        TemplateOf(child, t)[k] # TemplateOf(parents[i], t)[k]

\* ---- render_template on a Field template
FieldRendered == rendered # <<>> /\ template.tag = "Field"
Present == template.from \in DOMAIN ctx

\* C10: render_template on a Field template gives one of five outcomes: key
\* present and equal to the default - nothing; present otherwise - the value,
\* unchanged; absent with a default - nothing; absent and optional - nothing;
\* absent, not optional, no default - a missing-required-field error.
C10_FieldOutcomes ==
    FieldRendered =>
        rendered[1] =
            CASE Present /\ template.default = <<ctx[template.from]>> -> RenderOk(<<>>)
              [] Present /\ template.default # <<ctx[template.from]>> ->
                    RenderOk(<<ctx[template.from]>>)
              [] ~Present /\ template.default # <<>> -> RenderOk(<<>>)
              [] ~Present /\ template.default = <<>> /\ template.optional -> RenderOk(<<>>)
              [] ~Present /\ template.default = <<>> /\ ~template.optional ->
                    RenderErr("missing required field", template.from)

\* A required field with a default was absent, and nothing was emitted.
C10_Witness ==
    /\ FieldRendered /\ ~Present
    /\ template.default # <<>> /\ ~template.optional
    /\ rendered[1] = RenderOk(<<>>)

Pruned == pruned # <<>>
AbsentField(t) ==
    /\ t.tag = "Field"
    /\ t.from \notin DOMAIN ctx
    /\ t.optional \/ t.default # <<>>
DefaultField(t) ==
    /\ t.tag = "Field"
    /\ t.from \in DOMAIN ctx
    /\ t.default = <<ctx[t.from]>>
\* A Sequence none of whose items yields a value, an empty one included.
RECURSIVE YieldsNothing(_)
YieldsNothing(t) ==
    \/ AbsentField(t)
    \/ DefaultField(t)
    \/ /\ t.tag = "Sequence"
       /\ \A i \in 1..Len(t.items) : YieldsNothing(t.items[i])
\* The `type` that render_target injects survives the pruner.
TypeSurvives(t) ==
    /\ ~(t.tag = "Field" /\ t.optional /\ t.from \notin DOMAIN ctx)
    /\ ~(t.tag = "Field" /\ t.default = <<TypeOf(Protocol)>>)

\* C11 as stated: after render_target and FieldPruner the object has a key k
\* if and only if k is a key of the template whose template is not a Field
\* that is absent and optional or defaulted, or present and equal to its default.
C11_PrunedKeysAsStated ==
    Pruned =>
        \A k \in TargetKeys \cup {"type"} :
            k \in DOMAIN pruned[1].map
                <=> /\ k \in DOMAIN template.map
                    /\ ~AbsentField(template.map[k])
                    /\ ~DefaultField(template.map[k])

\* C11: after render_target and FieldPruner the object has a key k if and only
\* if k is a key of the template and either its template yields a value (it
\* is not a Field absent and optional or defaulted, not a Field equal to its
\* default, not a Sequence none of whose items yields a value), or k is `type`,
\* its template yields nothing, and it is neither an optional Field absent from
\* the input nor a Field whose default is the protocol name; a kept key holds
\* what its template rendered to, the kept injected `type` the protocol name.
C11_PrunedKeys ==
    Pruned =>
        \A k \in TargetKeys \cup {"type"} :
            LET t == template.map[k]
            IN  /\ k \in DOMAIN pruned[1].map
                    <=> /\ k \in DOMAIN template.map
                        /\ \/ ~YieldsNothing(t)
                           \/ k = "type" /\ TypeSurvives(t)
                /\ k \in DOMAIN pruned[1].map =>
                        pruned[1].map[k] =
                            IF YieldsNothing(t) THEN TypeOf(Protocol)
                            ELSE render_template(t, ctx).val[1]

\* The pruner dropped the injected `type` and a Field equal to its default,
\* and kept a key.
C11_Witness ==
    /\ Pruned
    /\ "type" \notin DOMAIN template.map
    /\ "type" \in DOMAIN rendered[1].val[1].map
    /\ "type" \notin DOMAIN pruned[1].map
    /\ "k" \in DOMAIN template.map
    /\ DefaultField(template.map["k"])
    /\ pruned[1].map = EmptyMap

Marked(protocol, tgt) ==
    /\ protocol \in DOMAIN Protocols
    /\ tgt \in DOMAIN Protocols[protocol].targets
    /\ Protocols[protocol].targets[tgt].not_implemented = <<TRUE>>
Kept == SelectSeq(args, LAMBDA p : ~Marked(p.protocol, target))
NamesOf(list) == [i \in 1..Len(list) |-> list[i].name]
\* The names of the proxies of the document: the `name` of a clash map, the
\* head of a surge line.
DocNames ==
    [i \in 1..Len(doc) |->
        IF doc[i].kind = "object" THEN doc[i].map["name"].v ELSE doc[i].v.name]
Converting == stage \in {"convert", "failed", "done"}
IsPrefix(s, t) == Len(s) <= Len(t) /\ s = SubSeq(t, 1, Len(s))

\* C12: before a render converts anything, the removal leaves exactly the
\* proxies not marked not_implemented for the target, in the order they were
\* given; the conversions run on that list (stably sorted by name when
\* common.sort is set) and the document lists it in order; a render never
\* fails with the `is not implemented` error; a direct convert call on a
\* marked pair returns that error whatever the input map.
C12_MarkedDropped ==
    /\ stage = "retained" => proxies = Kept /\ doc = <<>> /\ failure = <<>>
    /\ Converting =>
        /\ proxies = IF sort THEN sort_by_name(Kept, 1) ELSE Kept
        /\ IsPrefix(DocNames, NamesOf(proxies))
    /\ stage = "done" => DocNames = NamesOf(proxies)
    /\ failure # <<>> => failure[1].msg[1] # "is not implemented"
    /\ converted # <<>> /\ Marked(converted[1].protocol, converted[1].target)
            => converted[1].result =
                    RenderErr("is not implemented", converted[1].protocol)

\* A render that was given a marked proxy between two others finished with
\* the two others, in their order.
C12_Witness ==
    /\ stage = "done"
    /\ ~sort
    /\ Len(args) = 3
    /\ Marked(args[2].protocol, target)
    /\ args[1].name = "b" /\ args[3].name = "a"
    /\ DocNames = <<"b", "a">>

\* The integer lies in [1, 65535].
InPortRange(n) == ~n.neg /\ n.limbs = <<0, 0, 0, n.limbs[4]>> /\ n.limbs[4] >= 1
PortChecked ==
    /\ converted # <<>>
    /\ converted[1].protocol \in {"shadowsocks", "trojan"}
    /\ ~Marked(converted[1].protocol, converted[1].target)
    /\ "port" \in DOMAIN converted[1].values
    /\ converted[1].values["port"].kind = "integer"

\* C13: for shadowsocks and trojan, convert returns the validation error, and
\* no output, for every integer port outside [1, 65535] of the signed or
\* unsigned 64-bit range, and a port inside [1, 65535] passes the port check.
C13_PortValidated ==
    PortChecked =>
        IF InPortRange(converted[1].values["port"].v)
        THEN converted[1].result.msg # <<"port out of range", converted[1].protocol>>
        ELSE converted[1].result = RenderErr("port out of range", converted[1].protocol)

Built == groups # <<>> /\ groups[1].st = "ok"
ProxyNames == [i \in 1..Len(proxies) |-> proxies[i].name]
IsReference(r) == Len(r) >= 2 /\ SubSeq(r, 1, 2) = <<"[", "]">>
\* The first spec of a name: the one build_groups resolves.
IsFirst(i) == \A j \in 1..(i - 1) : specs[j].name # specs[i].name
FirstSpec(name) == specs[CHOOSE i \in 1..Len(specs) : specs[i].name = name /\ IsFirst(i)]
\* What one rule contributes, and the rules of a list one after the other.
Contribution(r) ==
    IF IsReference(r) \/ r \in Range(ProxyNames) THEN <<r>>
    ELSE SelectSeq(ProxyNames, LAMBDA name : is_match(r, name))
RECURSIVE Contributions(_)
Contributions(rule) ==
    IF rule = <<>> THEN <<>> ELSE Contribution(Head(rule)) \o Contributions(Tail(rule))
FirstAt(list, x) == CHOOSE i \in 1..Len(list) : list[i] = x /\ \A j \in 1..(i - 1) : list[j] # x

\* C14: when build_groups succeeds, the member list of every group has no
\* duplicate, holds exactly what the rules of its spec contribute (a `[]X`
\* rule the token, a rule equal to a proxy name that name, any other rule the
\* proxies its regex matches, in the order of the proxy list), and orders it
\* by first appearance.
C14_MembersInOrder ==
    Built =>
        \A i \in 1..Len(groups[1].val) :
            LET m == groups[1].val[i].proxies
                c == Contributions(FirstSpec(groups[1].val[i].name).rule)
            IN  /\ \A a, b \in 1..Len(m) : m[a] = m[b] => a = b
                /\ Range(m) = Range(c)
                /\ \A a, b \in 1..Len(m) : a < b => FirstAt(c, m[a]) < FirstAt(c, m[b])

\* A rule equal to a proxy name, given twice, contributed that name once and
\* not the other proxy its regex matches.
C14_Witness ==
    /\ Built
    /\ ProxyNames = <<<<"[", "]", "H">>, <<".">>>>
    /\ specs[1].rule = <<<<".">>, <<".">>>>
    /\ groups[1].val[1].proxies = <<<<".">>>>

References(sp) == {trim(SubSeq(r, 3, Len(r))) : r \in {x \in Range(sp.rule) : IsReference(x)}}
AllowedNames ==
    {specs[i].name : i \in 1..Len(specs)}
        \cup {<<"D", "I", "R", "E", "C", "T">>, <<"R", "E", "J", "E", "C", "T">>}
BrokenSpec(sp) == \E x \in References(sp) : x = <<>> \/ x \notin AllowedNames
ReferenceErrors == {<<"empty group reference">>, <<"references unknown group">>}

\* C15 as stated: build_groups fails whenever some `[]X` rule of some spec has
\* a trimmed X that is empty or not allowed, and raises no back-reference
\* error when there is none.
C15_BrokenReferenceAsStated ==
    groups # <<>> =>
        IF \E i \in 1..Len(specs) : BrokenSpec(specs[i])
        THEN groups[1].st = "err"
        ELSE groups[1].msg \notin ReferenceErrors

\* C15: build_groups fails, returning no group, whenever some `[]X` rule of a
\* spec that is the first of its name has a trimmed X that is empty or not
\* allowed; when no such spec has one (references to the group itself or to a
\* later group included) it raises no back-reference error. A spec whose name
\* an earlier spec has is skipped, its rules unread.
C15_BrokenReference ==
    groups # <<>> =>
        IF \E i \in 1..Len(specs) : IsFirst(i) /\ BrokenSpec(specs[i])
        THEN groups[1].st = "err" /\ groups[1].val = <<>>
        ELSE groups[1].msg \notin ReferenceErrors

\* Groups that refer to themselves and to a group declared later were built.
C15_Witness ==
    /\ Built
    /\ Len(specs) = 2 /\ specs[2].name = NameH
    /\ specs[1].rule = <<<<"[", "]", "G">>, <<"[", "]", " ", "H">>>>
    /\ groups[1].val[1].proxies = specs[1].rule

\* C16: a spec of the same name whose rules are the member list that
\* build_groups resolved resolves, against the same proxies and declared
\* groups, to that member list in the same order.
C16_Idempotent ==
    rebuilt # <<>> =>
        rebuilt[1].result = GroupOk(groups[1].val[rebuilt[1].of])

\* The two families of the reorder, by the rule's type in upper case.
DomainFamily(rule) == to_ascii_uppercase(rule.rule_type) \in DOMAIN_RULE_TYPES
IpFamily(rule) == to_ascii_uppercase(rule.rule_type) \in IP_RULE_TYPES
Given == rules[1].val
Times(list, rule) == Cardinality({i \in 1..Len(list) : list[i] = rule})

\* C17: reordering the output of the reorder gives that output again, and a
\* rule of neither family is at the same index in the output as in the input.
C17_ReorderIdempotent ==
    /\ again # <<>> => again[1] = reordered[1]
    /\ reordered # <<>> =>
        /\ Len(reordered[1]) = Len(Given)
        /\ \A i \in 1..Len(Given) :
            ~DomainFamily(Given[i]) /\ ~IpFamily(Given[i]) => reordered[1][i] = Given[i]

\* The reorder moved rules around one of neither family, and ran again.
C17_Witness ==
    /\ again # <<>>
    /\ reordered[1] # Given
    /\ \E i, j, k \in 1..Len(Given) :
        /\ i < j /\ j < k
        /\ IpFamily(Given[i]) /\ DomainFamily(Given[k])
        /\ ~DomainFamily(Given[j]) /\ ~IpFamily(Given[j])

\* C18: the output of the reorder has the rules of its input, as many times
\* each; its domain rules all come before its IP rules; the domain rules are
\* in their input order and so are the IP rules; and an input without a
\* domain rule or without an IP rule is returned as it is.
C18_DomainBeforeIp ==
    reordered # <<>> =>
        LET out == reordered[1]
        IN  /\ Len(out) = Len(Given)
            /\ \A i \in 1..Len(Given) : Times(out, Given[i]) = Times(Given, Given[i])
            /\ \A i, j \in 1..Len(out) :
                DomainFamily(out[i]) /\ IpFamily(out[j]) => i < j
            /\ SelectSeq(out, DomainFamily) = SelectSeq(Given, DomainFamily)
            /\ SelectSeq(out, IpFamily) = SelectSeq(Given, IpFamily)
            /\ (\A i \in 1..Len(Given) : ~DomainFamily(Given[i])) => out = Given
            /\ (\A i \in 1..Len(Given) : ~IpFamily(Given[i])) => out = Given

\* An IP rule in lower case stood before two different domain rules.
C18_Witness ==
    /\ reordered # <<>>
    /\ \E i, j, k \in 1..Len(Given) :
        /\ i < j /\ j < k
        /\ Given[i].rule_type = <<"ip-cidr">>
        /\ DomainFamily(Given[j]) /\ DomainFamily(Given[k]) /\ Given[j] # Given[k]
    /\ reordered[1] # Given

\* The top-level parts of the line before `//`, each without the blanks
\* around it.
Parts == split_rule_parts(trim(strip_comment(line.line)))
Whitelisted == is_supported_rule_type(Parts[1])
IsFlag(part) == to_ascii_lowercase_str(part) = <<"no-resolve">>
\* The last part that is kept when the parts Removable holds are taken from
\* the tail; the type is always kept.
LastKept(Removable(_)) ==
    CHOOSE k \in 1..Len(Parts) :
        /\ k = 1 \/ ~Removable(Parts[k])
        /\ \A j \in (k + 1)..Len(Parts) : Removable(Parts[j])
TypeContentGroup(k) ==
    join(SubSeq(Parts, 1, k)) \o <<",">> \o line.group
        \o (IF \E j \in (k + 1)..Len(Parts) : IsFlag(Parts[j])
            THEN <<",", "no-resolve">> ELSE <<>>)

\* C19 as stated: only the trailing parts equal to `no-resolve` are removed.
C19_ParseRenderAsStated ==
    parsed_rule # <<>> /\ Whitelisted =>
        /\ parsed_rule[1] # <<>>
        /\ rule_text # <<>> => rule_text[1] = TypeContentGroup(LastKept(IsFlag))

\* C19: a line whose first top-level part is a whitelisted type parses to a
\* rule, and the rule renders as the type, the remaining parts joined by `,`
\* once every trailing part that is empty or equal to `no-resolve` in any
\* letter case is removed, the group, and `no-resolve` exactly when a
\* `no-resolve` part was removed; a comma inside parentheses splits nothing
\* and the line ends before `//`.
C19_ParseRender ==
    parsed_rule # <<>> /\ Whitelisted =>
        /\ parsed_rule[1] # <<>>
        /\ rule_text # <<>> =>
            rule_text[1] = TypeContentGroup(LastKept(LAMBDA p : p = <<>> \/ IsFlag(p)))

\* A rendered rule whose line had content, then a flag in upper case.
C19_Witness ==
    /\ rule_text # <<>>
    /\ Whitelisted
    /\ Len(Parts) = 3
    /\ Parts[2] = <<"x">>
    /\ Parts[3] = <<"NO-RESOLVE">>

\* The entries of the pass in order, and the groups of those that are
\* `[]FINAL` in any letter case once the blanks around them are removed.
PassEntries == entries_of(rulesets[1].rulesets[1])
AsksFinal(e) == to_ascii_uppercase(trim(e.entry)) = <<"[", "]", "FINAL">>
FinalEntries == SelectSeq(PassEntries, AsksFinal)
IsFinalRule(rule) == to_ascii_uppercase(rule.rule_type) = <<"FINAL">>

\* C20: the rule list of a pass ends with one FINAL rule, without content or
\* flag, for each `[]FINAL` entry, in the order of the entries and each for
\* its entry's group, and no rule before them is of type FINAL, whatever
\* FINAL lines the inline, file and URL sources hold.
C20_FinalLast ==
    rulesets # <<>> /\ rules # <<>> /\ rules[1].st = "ok" =>
        LET out == rules[1].val
            others == Len(out) - Len(FinalEntries)
        IN  /\ others >= 0
            /\ \A i \in 1..others : ~IsFinalRule(out[i])
            /\ \A j \in 1..Len(FinalEntries) :
                out[others + j] = Rule(<<"FINAL">>, <<>>, FinalEntries[j].group, FALSE)

\* A pass with a `[]FINAL` entry for G before the file, whose first line is
\* FINAL, and a `[]final` entry for H.
C20_Witness ==
    /\ rulesets # <<>> /\ rules # <<>> /\ rules[1].st = "ok"
    /\ Len(FinalEntries) = 2
    /\ FinalEntries[1].group = <<"G">> /\ FinalEntries[2].entry = <<"[", "]", "final">>
    /\ FinalEntries[2].group = <<"H">>
    /\ \E i, j \in 1..Len(PassEntries) :
        i < j /\ AsksFinal(PassEntries[i]) /\ PassEntries[j].entry = <<"f">>
    /\ Len(rules[1].val) = 3

\* C25 as stated: a call served from the cache leaves the index entry and
\* the file that a store of the served text on that call leaves.
C25_RestoredOnHit ==
    \A t \in Procs :
        FetchReturned(t) /\ obs[t].hit # <<>> => HoldsText(t, obs[t].hit[1])

\* C25: a call served from the cache returns parse of the text and stores
\* nothing: the index, the directory and the files are as they were when the
\* call started, the expiry of the url's entry included.
C25_HitStoresNothing ==
    \A t \in Procs :
        FetchReturned(t) /\ obs[t].hit # <<>> =>
            /\ CacheUntouched(t)
            /\ entries[call[t].url] # <<>>
            /\ sha256_hex(obs[t].hit[1]) = entries[call[t].url][1].sha256

\* A call was served from the cache after the clock moved on from the store:
\* the entry still expires when the store said.
C25_Witness ==
    \E t \in Procs :
        /\ FetchReturned(t) /\ obs[t].hit # <<>>
        /\ entries[call[t].url] # <<>>
        /\ entries[call[t].url][1].expires_at < now + ttl

StoreReturned(t) == pc[t] = "ret" /\ call[t].op = "store"

\* C22: the handles that one API request uses (the pref its token is checked
\* against, the network its handler lists) come from one build of the runtime.
C22_OneRuntime ==
    \A t \in ApiTasks : \A u, v \in api[t].uses : u.of = v.of

\* Every API request that was received has been answered.
ApiQuiet == \A t \in ApiTasks : api[t].pc \in {"idle", "done"}

\* C30: when no reload and no token update is under way, the installed runtime
\* is the one built from the pref file as it is.
C30_LastWrittenInstalled ==
    ApiQuiet => runtime.pref.common = pref_file.common

\* A request whose token is the configured one; the profiles of insert_url,
\* and those of them that default_url does not list.
Common == state_pref.common
ValidToken(n) ==
    /\ params.token[n] # <<>>
    /\ Common.api_access_token = params.token[n]
InsertProfiles == Range(Common.insert_url)
InsertOnlyProfiles == Range(Common.insert_url) \ Range(Common.default_url)
Served(n) == response[n] # <<>> /\ response[n][1].st = "ok"
ServedFrom(n, x) == Served(n) /\ x \in Range(response[n][1].val)
SameOutside(hidden) == \A x \in ProfilePaths \ hidden : profiles[1][x] = profiles[2][x]

RECURSIVE CommaParts(_, _)
CommaParts(l, current) ==
    IF l = <<>> THEN <<current>>
    ELSE IF Head(l) = "," THEN <<current>> \o CommaParts(Tail(l), <<>>)
    ELSE CommaParts(Tail(l), Append(current, Head(l)))
LineMembers(l) == Tail(CommaParts(l, <<>>))
DocGroups == emitted.groups[1]
Declared ==
    {sp.name : sp \in Range(specs)}
        \cup {<<"D", "I", "R", "E", "C", "T">>, <<"R", "E", "J", "E", "C", "T">>}
EmittedProxies == {proxies[i].name : i \in 1..Len(proxies)}

\* C28: every member of every emitted group is a declared group, DIRECT or
\* REJECT, or the name of a proxy of the list left after the not-implemented
\* filter, which is the list the proxy section is written from.
C28_MembersEmitted ==
    emitted.groups # <<>> =>
        /\ \A i \in 1..Len(DocGroups.clash) :
            \A m \in Range(DocGroups.clash[i].proxies) :
                m \in Declared \cup EmittedProxies
        /\ \A i \in 1..Len(DocGroups.surge) :
            \A m \in Range(LineMembers(DocGroups.surge[i])) :
                m \in Declared \cup EmittedProxies

\* The same of the clash documents, and of the groups no rule of which has a
\* blank after its `[]`.
C28_ClashMembersEmitted ==
    (emitted.groups # <<>>
        /\ \/ target = "clash"
           \/ \A sp \in Range(specs) : <<"[", "]", " ", "H">> \notin Range(sp.rule))
    => C28_MembersEmitted

\* The rule the surge line was emitted for, and the number of `no-resolve`
\* parts a line ends with.
SurgeRule == parsed_rule[1][1]
RECURSIVE TrailingFlags(_)
TrailingFlags(l) ==
    IF Len(l) >= 2 /\ l[Len(l)] = "no-resolve" /\ l[Len(l) - 1] = ","
    THEN 1 + TrailingFlags(SubSeq(l, 1, Len(l) - 2))
    ELSE 0

\* C29: the surge line of a parsed SRC-IP-CIDR rule with a content starts
\* with `IP-CIDR,` and ends with the flag no-resolve exactly once, whether or
\* not the rule had its no_resolve flag; the line of a rule of another type is
\* the line Rule::render wrote.
C29_NoResolveOnce ==
    emitted.rule # <<>> =>
        IF SurgeRule.rule_type = <<"SRC-IP-CIDR">>
        THEN SurgeRule.content # <<>> =>
                /\ Len(emitted.rule[1]) >= 2
                /\ SubSeq(emitted.rule[1], 1, 2) = <<"IP-CIDR", ",">>
                /\ TrailingFlags(emitted.rule[1]) = 1
        ELSE ~eq_ignore_ascii_case(SurgeRule.rule_type, <<"SRC-IP-CIDR">>) =>
                emitted.rule[1] = Rule_render(SurgeRule)

\* The same for the rules without the flag: what holds of the rewrite.
C29_UnflaggedOnce ==
    (emitted.rule # <<>> /\ ~SurgeRule.flags.no_resolve) => C29_NoResolveOnce

\* A member without its leading `[]`; the members of a surge line.
Stripped(m) ==
    IF Len(m) >= 2 /\ m[1] = "[" /\ m[2] = "]" THEN SubSeq(m, 3, Len(m)) ELSE m
RECURSIVE CommaList(_)
CommaList(ms) == IF ms = <<>> THEN <<>> ELSE <<",">> \o Head(ms) \o CommaList(Tail(ms))
SurgeLine(name, ty, ms) == name \o <<" ", "=", " ">> \o ty \o CommaList(ms)
SurgeType(ty) == IF ty = <<"url-test">> THEN <<"smart">> ELSE ty
EmitGroup == proxy_group[1]
StrippedMembers == [i \in 1..Len(EmitGroup.proxies) |-> Stripped(EmitGroup.proxies[i])]

\* C23 as stated: the clash members are the group's members with a leading
\* `[]` stripped and nothing more.
C23_NeverEmptyAsStated ==
    /\ emitted.clash # <<>> =>
        /\ emitted.clash[1].type = EmitGroup.group_type
        /\ emitted.clash[1].proxies =
                IF EmitGroup.proxies = <<>> THEN <<<<"D", "I", "R", "E", "C", "T">>>> ELSE StrippedMembers
    /\ emitted.surge # <<>> =>
        emitted.surge[1] =
            IF EmitGroup.proxies = <<>>
            THEN SurgeLine(EmitGroup.name, <<"select">>, <<<<"D", "I", "R", "E", "C", "T">>>>)
            ELSE SurgeLine(EmitGroup.name, SurgeType(EmitGroup.group_type), StrippedMembers)

\* C23: a group without members is emitted with the one member DIRECT, by
\* clash under its own type and by surge as `name = select,DIRECT`; a group
\* with members keeps them all in order, each without its leading `[]`, clash
\* removing also the blanks around what follows the `[]` and surge not; surge
\* emits the type `url-test` as `smart`.
C23_NeverEmpty ==
    /\ emitted.clash # <<>> =>
        /\ emitted.clash[1].type = EmitGroup.group_type
        /\ emitted.clash[1].proxies # <<>>
        /\ emitted.clash[1].proxies =
                IF EmitGroup.proxies = <<>> THEN <<<<"D", "I", "R", "E", "C", "T">>>>
                ELSE [i \in 1..Len(EmitGroup.proxies) |->
                        IF Stripped(EmitGroup.proxies[i]) = EmitGroup.proxies[i]
                        THEN EmitGroup.proxies[i]
                        ELSE trim(Stripped(EmitGroup.proxies[i]))]
    /\ emitted.surge # <<>> =>
        emitted.surge[1] =
            IF EmitGroup.proxies = <<>>
            THEN SurgeLine(EmitGroup.name, <<"select">>, <<<<"D", "I", "R", "E", "C", "T">>>>)
            ELSE SurgeLine(EmitGroup.name, SurgeType(EmitGroup.group_type), StrippedMembers)

\* Both emitters ran on a url-test group without members.
C23_Witness ==
    /\ emitted.clash # <<>> /\ emitted.surge # <<>>
    /\ EmitGroup.proxies = <<>>
    /\ EmitGroup.group_type = <<"url-test">>
CacheFile(url) == dirent[cache_path_for_url(url)]

\* C24: when every store call for a url carries the same text, each of them
\* returns Ok, and a read of the url made once they have all returned, before
\* the expiry of the entry, returns that text.
C24_SameTextBenign ==
    \A t \in Procs :
        LET url == call[t].url
        IN  Cardinality(stored[url]) = 1 =>
                /\ StoreReturned(t) => ret[t].st = "ok"
                /\ ReadReturned(t) /\ Fresh(url) => ret[t] = RetOk(<<good[url][1].text>>)

\* C26: a read that returns Some(x) returns the whole text of a store call
\* started for the same url, and the hash of x is the hash of the index entry
\* the read took.
C26_ReadsStoredText ==
    \A t \in Procs :
        ReadReturned(t) /\ ret[t].val # <<>> =>
            /\ ret[t].st = "ok"
            /\ ret[t].val[1] \in stored[call[t].url]
            /\ loc[t].entry # <<>>
            /\ sha256_hex(ret[t].val[1]) = loc[t].entry[1].sha256

\* A read returned a text while a store of another text for the same url had
\* already put its file in place and not yet its index entry.
C26_Witness ==
    \E t, o \in Procs :
        /\ ReadReturned(t) /\ ret[t].val # <<>>
        /\ call[o].op = "store" /\ call[o].url = call[t].url
        /\ pc[o] \in {"st_write", "st_rename", "st_insert"}
        /\ call[o].text # ret[t].val[1]

\* C27: once a store(url, t) that returned Ok and a read(url) have both
\* returned, before the expiry of the store's entry, the index holds the
\* store's entry and the `.cache` file holds t.
C27_ReadKeepsStore ==
    \A s, r \in Procs :
        /\ StoreReturned(s) /\ ret[s].st = "ok"
        /\ ReadReturned(r) /\ call[r].url = call[s].url
        /\ Fresh(call[s].url)
        => /\ entries[call[s].url] # <<>>
           /\ entries[call[s].url][1].sha256 = sha256_hex(call[s].text)
           /\ CacheFile(call[s].url) # NoFile
           /\ idata[CacheFile(call[s].url)] = call[s].text
====
